---- MODULE Spec2Model ----
(***************************************************************************)
(* Model of the operation log and diff engine of "hoard":                  *)
(*   - OperationIter (src/hoard/iter/operation.rs) and the fold of         *)
(*     Hoard::new (src/checkers/history/operation/v2.rs) over it;          *)
(*   - AllFilesIter (src/hoard/iter/all_files.rs);                         *)
(*   - cleanup_operations (src/checkers/history/operation/util.rs);        *)
(*   - OperationV2::from_v1 (src/checkers/history/operation/v2.rs);        *)
(*   - the serde round trip of OperationV2;                                *)
(*   - the diff classifier (HoardDiffIter) and the backup and restore      *)
(*     commands, for one file seen from two systems (tests/hoard_diff.rs); *)
(*   - one backup or restore over the diff stream of a hoard.              *)
(* Each subsystem has its own specification over its own variables; the    *)
(* variables of the other subsystems stay at their idle values.            *)
(***************************************************************************)
EXTENDS Integers, Sequences, FiniteSets, TLC

VARIABLES
    \* OperationIter / Hoard::new
    direction,       \* OperationIter.direction
    config_hoard,    \* shape of the configured hoard: "Anonymous" | "Named"
    diffs,           \* items the underlying HoardDiffIter has produced so far
    ops,             \* items OperationIter has returned so far
    on_disk,         \* per file: does it exist on the system, in the hoard
    inner,           \* accumulator of the fold in Hoard::new (Ok map or Err)
    hoard_new,       \* result of Hoard::new once the stream has ended
    \* AllFilesIter
    system_tree,     \* paths present under the pile's system prefix
    hoard_tree,      \* paths present under the pile's hoard prefix
    ignore,          \* relative paths matched by an ignore glob of the pile
    read_errors,     \* (side, directory) whose read_dir fails, not with NotFound
    pile_paths,      \* names of the piles whose `path` is set in the configuration
    sys_order,       \* order in which read_dir lists the system side
    hoard_order,     \* order in which read_dir lists the hoard side
    root_paths,      \* AllFilesIter.root_paths (work stack)
    system_entries,  \* AllFilesIter.system_entries
    hoard_entries,   \* AllFilesIter.hoard_entries
    current_root,    \* AllFilesIter.current_root
    yielded,         \* items returned by next() so far
    \* cleanup_operations
    history,         \* log files under the history root
    clock,           \* UTC time of the next log
    cleanup,         \* record of the last cleanup_operations run
    \* OperationV2::from_v1
    v1_shape,        \* shape of the hoard being upgraded
    file_checksums,  \* carry value: (pile, path) -> Option<Checksum>
    file_set,        \* carry value: paths of the preceding v1 log
    v1_logs,         \* v1 logs folded so far
    v2_logs,         \* v2 logs produced so far
    \* diff classifier and the commands around it (one file of one hoard)
    system_content,  \* content of the file on each system, or None
    hoard_content,   \* content of the hoard copy of the file, or None
    op_log,          \* latest log entry of each system for the file, oldest first
    \* one backup or restore over a hoard of several files
    run_command,     \* direction and force flag of the running command
    run_diffs,       \* diffs the command has taken from the stream
    run_applied,     \* files whose operation the command has executed
    run_result,      \* "Running", "Ok" or the error the command returned
    run_journal,     \* whether the command has written its operation log
    \* games list (config/game.rs)
    games_file,      \* the games file: readable or not, and the list it holds
    game_call        \* the last add_game / remove_game call and what it returned

opVars == <<direction, config_hoard, diffs, ops, on_disk, inner, hoard_new>>
filesVars == <<system_tree, hoard_tree, ignore, read_errors, pile_paths, sys_order, hoard_order,
               root_paths, system_entries, hoard_entries, current_root, yielded>>
cleanVars == <<history, clock, cleanup>>
upVars == <<v1_shape, file_checksums, file_set, v1_logs, v2_logs>>
diffVars == <<system_content, hoard_content, op_log>>
runVars == <<run_command, run_diffs, run_applied, run_result, run_journal>>
gameVars == <<games_file, game_call>>

vars == <<opVars, filesVars, cleanVars, upVars, diffVars, runVars, gameVars>>

None == "None"

\* Option<Checksum>
Some(x) == <<"Some", x>>

NoChecksum == <<"None">>

EmptyMap == <<>>

\* HashMap::insert
MapInsert(m, k, v) == [x \in (DOMAIN m) \cup {k} |-> IF x = k THEN v ELSE m[x]]

(***************************************************************************)
(* Bounds                                                                  *)
(***************************************************************************)
MaxDiffs == 2

MaxTime == 4

MaxV1Logs == 3
MaxEntries == 3

(***************************************************************************)
(* OperationIter                                                           *)
(***************************************************************************)
Directions == {"Backup", "Restore"}

DiffSources == {"Local", "Remote", "Mixed", "Unknown"}

ModifiedVariants == {"BinaryModified", "TextModified", "PermissionsModified"}

SourcedVariants == ModifiedVariants \cup {"Created", "Recreated", "Deleted"}

ItemOperations == {"Create", "Modify", "Delete", "Nothing"}

\* Files of the configured hoard, as (pile_name, relative_path).
HoardFiles(shape) ==
    IF shape = "Anonymous"
    THEN {<<None, "file_1">>, <<None, "file_2">>}
    ELSE {<<"dir", "file_1">>, <<"single_file", "">>}

\* The file slot of an error item.
NoFile == <<None, None>>

\* Items of the HoardDiffIter stream: Result<HoardFileDiff, Error>.
DiffItems(shape) ==
    [variant : SourcedVariants, diff_source : DiffSources, file : HoardFiles(shape)]
    \cup [variant : {"Unchanged"}, diff_source : {None}, file : HoardFiles(shape)]
    \cup [variant : {"Err"}, diff_source : {None}, file : {NoFile}]

OperationOfUnknownAsLocal(dir, diff) ==
    IF diff.variant \in ModifiedVariants THEN "Modify"
    ELSE IF diff.variant \in {"Created", "Recreated"} THEN
        CASE diff.diff_source = "Mixed" -> "Create"
          [] dir = "Backup" /\ diff.diff_source \in {"Local", "Unknown"} -> "Create"
          [] dir = "Backup" /\ diff.diff_source = "Remote" -> "Delete"
          [] dir = "Restore" /\ diff.diff_source = "Remote" -> "Create"
          [] dir = "Restore" /\ diff.diff_source \in {"Local", "Unknown"} -> "Delete"
    ELSE IF diff.variant = "Deleted" THEN
        CASE diff.diff_source = "Mixed" -> "Delete"
          [] dir = "Backup" /\ diff.diff_source \in {"Local", "Unknown"} -> "Delete"
          [] dir = "Restore" /\ diff.diff_source = "Remote" -> "Delete"
          [] dir = "Backup" /\ diff.diff_source = "Remote" -> "Create"
          [] dir = "Restore" /\ diff.diff_source \in {"Local", "Unknown"} -> "Create"
    ELSE "Nothing"

\* The match of OperationIter::next on an Ok diff.
OperationOf(dir, diff) ==
    IF diff.variant \in ModifiedVariants THEN "Modify"
    ELSE IF diff.variant \in {"Created", "Recreated"} THEN
        CASE diff.diff_source = "Mixed" -> "Create"
          [] dir = "Backup" /\ diff.diff_source = "Local" -> "Create"
          [] dir = "Backup" /\ diff.diff_source \in {"Remote", "Unknown"} -> "Delete"
          [] dir = "Restore" /\ diff.diff_source \in {"Remote", "Unknown"} -> "Create"
          [] dir = "Restore" /\ diff.diff_source = "Local" -> "Delete"
    ELSE IF diff.variant = "Deleted" THEN
        CASE diff.diff_source = "Mixed" -> "Delete"
          [] dir = "Backup" /\ diff.diff_source = "Local" -> "Delete"
          [] dir = "Restore" /\ diff.diff_source \in {"Remote", "Unknown"} -> "Delete"
          [] dir = "Backup" /\ diff.diff_source \in {"Remote", "Unknown"} -> "Create"
          [] dir = "Restore" /\ diff.diff_source = "Local" -> "Create"
    ELSE "Nothing"

OperationIterItemErrorAsDelete(dir, diff) ==
    IF diff.variant = "Err"
    THEN [op |-> "Delete", file |-> <<None, "file_1">>]
    ELSE [op |-> OperationOf(dir, diff), file |-> diff.file]

\* The item OperationIter::next returns for one item of the diff stream.
OperationIterItem(dir, diff) ==
    IF diff.variant = "Err"
    THEN [op |-> "Err", file |-> NoFile]
    ELSE [op |-> OperationOf(dir, diff), file |-> diff.file]

(***************************************************************************)
(* Hoard::new: the fold over OperationIter                                 *)
(***************************************************************************)
DefaultPile == [created |-> EmptyMap, modified |-> EmptyMap,
                deleted |-> {}, unmodified |-> EmptyMap]

\* Hoard::get_or_create_pile: the key under which a pile is accumulated.
PileKey(pile_name) == IF pile_name = None THEN "" ELSE pile_name

GetOrCreatePile(map, pile_name) ==
    IF PileKey(pile_name) \in DOMAIN map THEN map[PileKey(pile_name)] ELSE DefaultPile

\* Which copies of a file exist.
Presence == [system : BOOLEAN, hoard : BOOLEAN]

\* HoardFile::system_checksum: None when the system file is absent.
SystemChecksum(disk, file) ==
    IF disk[file].system THEN Some(<<"system_checksum", file>>) ELSE NoChecksum

\* HoardFile::hoard_checksum: None when the hoard file is absent.
HoardChecksum(disk, file) ==
    IF disk[file].hoard THEN Some(<<"hoard_checksum", file>>) ELSE NoChecksum

SourceChecksumAlwaysSystem(disk, dir, file) == SystemChecksum(disk, file)

\* The checksum the fold asks for under Create and Modify: that of the side
\* the operation reads from.
SourceChecksum(disk, dir, file) ==
    IF dir = "Backup" THEN SystemChecksum(disk, file) ELSE HoardChecksum(disk, file)

\* Result<HashMap<String, Pile>, Error>
OkMap(m) == [ok |-> TRUE, map |-> m, error |-> None]

\* The error of an error item of the stream.
ErrMap == [ok |-> FALSE, map |-> EmptyMap, error |-> "Diff"]

\* Error::IO(io::Error::new(io::ErrorKind::NotFound, ..))
ErrNotFound == [ok |-> FALSE, map |-> EmptyMap, error |-> "NotFound"]

\* Hoard::require_checksum
RequireChecksum(checksum) ==
    IF checksum = NoChecksum THEN [ok |-> FALSE, value |-> NoChecksum]
    ELSE [ok |-> TRUE, value |-> checksum[2]]

\* One application of the fold closure of Hoard::new.
FoldOp(acc, disk, dir, item) ==
    IF ~acc.ok THEN acc
    ELSE IF item.op = "Err" THEN ErrMap
    ELSE LET pile == GetOrCreatePile(acc.map, item.file[1])
             path == item.file[2]
             checksum ==
                 CASE item.op \in {"Create", "Modify"} ->
                        RequireChecksum(SourceChecksum(disk, dir, item.file))
                   [] item.op = "Nothing" ->
                        RequireChecksum(SystemChecksum(disk, item.file))
                   [] item.op = "Delete" -> [ok |-> TRUE, value |-> NoChecksum]
             new_pile ==
                 CASE item.op = "Create" ->
                        [pile EXCEPT !.created = MapInsert(@, path, checksum.value)]
                   [] item.op = "Modify" ->
                        [pile EXCEPT !.modified = MapInsert(@, path, checksum.value)]
                   [] item.op = "Delete" ->
                        [pile EXCEPT !.deleted = @ \cup {path}]
                   [] item.op = "Nothing" ->
                        [pile EXCEPT !.unmodified = MapInsert(@, path, checksum.value)]
         IN IF ~checksum.ok THEN ErrNotFound
            ELSE OkMap(MapInsert(acc.map, PileKey(item.file[1]), new_pile))

\* The tail of Hoard::new: choose the shape of the log from the accumulator.
HoardOfInner(acc) ==
    IF ~acc.ok THEN [shape |-> "Err", piles |-> EmptyMap]
    ELSE IF Cardinality(DOMAIN acc.map) = 1 /\ "" \in DOMAIN acc.map
         THEN [shape |-> "Anonymous", piles |-> acc.map]
         ELSE [shape |-> "Named", piles |-> acc.map]

\* Hoard::new has not returned yet.
NoHoard == [shape |-> None, piles |-> EmptyMap]

\* Option<Peekable<ReadDir>>: the entries not yet consumed.
NoEntries == [some |-> FALSE, entries |-> <<>>]

SomeEntries(seq) == [some |-> TRUE, entries |-> seq]

\* Option<RootPathItem>
NoRoot == [some |-> FALSE, pile_name |-> None, relative_path |-> <<>>, filters |-> {}]

IdleFiles ==
    /\ system_tree = {} /\ hoard_tree = {} /\ ignore = {} /\ read_errors = {}
    /\ pile_paths = {}
    /\ sys_order = <<>> /\ hoard_order = <<>>
    /\ root_paths = <<>> /\ system_entries = NoEntries /\ hoard_entries = NoEntries
    /\ current_root = NoRoot /\ yielded = <<>>

\* No cleanup_operations run has happened since the last log was written.
NoCleanup ==
    [ran |-> FALSE, pre |-> {}, list |-> <<>>, failed |-> {}, ok |-> TRUE, count |-> 0,
     error |-> None]

IdleClean == history = {} /\ clock = 1 /\ cleanup = NoCleanup

IdleUp ==
    /\ v1_shape = None /\ file_checksums = EmptyMap /\ file_set = {}
    /\ v1_logs = <<>> /\ v2_logs = <<>>

IdleDiff ==
    /\ system_content = EmptyMap /\ hoard_content = None
    /\ op_log = <<>>

IdleRun ==
    /\ run_command = [direction |-> None, force |-> FALSE]
    /\ run_diffs = <<>> /\ run_applied = <<>>
    /\ run_result = None /\ run_journal = FALSE

\* No add_game / remove_game call has been made.
NoGameCall ==
    [cmd |-> None, game |-> None, ty |-> None, path |-> None, force |-> FALSE,
     pre |-> [readable |-> TRUE, list |-> EmptyMap], result |-> None, carried |-> None]

IdleGame == games_file = [readable |-> TRUE, list |-> EmptyMap] /\ game_call = NoGameCall

IdleOp ==
    /\ direction = None /\ config_hoard = None /\ diffs = <<>> /\ ops = <<>>
    /\ on_disk = EmptyMap
    /\ inner = OkMap(EmptyMap) /\ hoard_new = NoHoard

InitOp ==
    /\ direction \in Directions
    /\ config_hoard \in {"Anonymous", "Named"}
    /\ diffs = <<>>
    /\ ops = <<>>
    /\ on_disk \in [HoardFiles(config_hoard) -> Presence]
    /\ inner = OkMap(EmptyMap)
    /\ hoard_new = NoHoard
    /\ IdleFiles /\ IdleClean /\ IdleUp /\ IdleDiff /\ IdleRun /\ IdleGame

\* One iteration of the fold in Hoard::new: OperationIter::next pulls one
\* item from the diff stream, translates it, and the closure accumulates it.
\* The diff of a file is a function of the file while the stream runs.
OperationIterNext ==
    /\ direction \in Directions
    /\ hoard_new = NoHoard
    /\ Len(diffs) < MaxDiffs
    /\ \E diff \in DiffItems(config_hoard) :
        /\ \A i \in 1..Len(diffs) :
              (diff.variant # "Err" /\ diffs[i].file = diff.file) => diffs[i] = diff
        /\ diffs' = Append(diffs, diff)
        /\ ops' = Append(ops, OperationIterItem(direction, diff))
        /\ inner' = FoldOp(inner, on_disk, direction, OperationIterItem(direction, diff))
    /\ UNCHANGED <<direction, config_hoard, on_disk, hoard_new>>
    /\ UNCHANGED <<filesVars, cleanVars, upVars, diffVars, runVars, gameVars>>

\* The diff stream ends: the fold returns and Hoard::new builds its value.
HoardNewFinish ==
    /\ direction \in Directions
    /\ hoard_new = NoHoard
    /\ hoard_new' = HoardOfInner(inner)
    /\ UNCHANGED <<direction, config_hoard, diffs, ops, on_disk, inner>>
    /\ UNCHANGED <<filesVars, cleanVars, upVars, diffVars, runVars, gameVars>>

NextOp == OperationIterNext \/ HoardNewFinish

SpecOp == InitOp /\ [][NextOp]_vars

(***************************************************************************)
(* C1                                                                      *)
(***************************************************************************)
\* The table of section 4.6.
TableOutput(variant, dir, source) ==
    CASE variant \in ModifiedVariants -> "Modify"
      [] variant = "Unchanged" -> "Nothing"
      [] variant \in {"Created", "Recreated"} ->
            IF \/ source = "Mixed"
               \/ (dir = "Backup" /\ source = "Local")
               \/ (dir = "Restore" /\ source \in {"Remote", "Unknown"})
            THEN "Create" ELSE "Delete"
      [] variant = "Deleted" ->
            IF \/ source = "Mixed"
               \/ (dir = "Backup" /\ source = "Local")
               \/ (dir = "Restore" /\ source \in {"Remote", "Unknown"})
            THEN "Delete" ELSE "Create"

\* C1: every item OperationIter emits for an Ok diff is the operation the
\* table of section 4.6 gives for (variant, direction, source), about the
\* same file; the output is one of the four operations for every input.
C1_TranslatorTable ==
    /\ Len(ops) = Len(diffs)
    /\ \A i \in 1..Len(diffs) :
          diffs[i].variant # "Err" =>
             /\ ops[i].op \in ItemOperations
             /\ ops[i].op = TableOutput(diffs[i].variant, direction, diffs[i].diff_source)
             /\ ops[i].file = diffs[i].file

C1_Witness ==
    /\ Len(ops) = 2
    /\ direction = "Backup"
    /\ diffs[1].variant = "Created" /\ diffs[1].diff_source = "Unknown"
    /\ ops[1].op = "Delete"
    /\ diffs[2].variant = "Deleted" /\ diffs[2].diff_source = "Remote"
    /\ ops[2].op = "Create"

(***************************************************************************)
(* AllFilesIter                                                            *)
(***************************************************************************)
\* Relative paths a pile may hold, as sequences of components.
PathUniverse ==
    {<<>>, <<"a.txt">>, <<"sub">>, <<"sub", "b.txt">>, <<"sub", "deep">>,
     <<"sub", "deep", "c.txt">>}

\* Components that name directories; every other component names a file.
DirNames == {"sub", "deep", "top"}

\* The pile of a named hoard whose path is a single file.
FilePile == "single_file"

\* Nodes (pile_name, relative_path) the configured piles may hold.
Nodes(shape) ==
    IF shape = "Anonymous"
    THEN {None} \X PathUniverse
    ELSE ({"dir"} \X PathUniverse) \cup {<<FilePile, <<>>>>}

Parent(path) == SubSeq(path, 1, Len(path) - 1)

\* Trees: a path exists only inside an existing directory.
Trees(shape) ==
    {t \in SUBSET Nodes(shape) :
        \A n \in t : n[2] # <<>> => <<n[1], Parent(n[2])>> \in t}

\* Whether a node is a directory where it exists (the same on both sides).
IsDirNode(n) ==
    /\ n[1] # FilePile
    /\ (n[2] = <<>> \/ n[2][Len(n[2])] \in DirNames)

\* Orders in which read_dir may list the components of a directory.
Orders ==
    {<<"a.txt", "b.txt", "c.txt", "d.txt", "deep", "sub", "top">>,
     <<"top", "sub", "deep", "d.txt", "c.txt", "b.txt", "a.txt">>}

\* Sets of relative paths the ignore globs of the directory pile may match.
IgnoreChoices == {{}, {<<"a.txt">>}, {<<"sub", "deep">>}, {<<"sub">>}}

Node(item) == <<item.pile_name, item.relative_path>>

\* HoardFile::is_file: the path exists on a side and is a file there.
HoardFileIsFile(n) == n \in system_tree \cup hoard_tree /\ ~IsDirNode(n)

\* HoardFile::is_dir: the path exists on a side and is a directory there.
HoardFileIsDir(n) == n \in system_tree \cup hoard_tree /\ IsDirNode(n)

\* RootPathItem::is_file
IsFile(item) == HoardFileIsFile(Node(item))

\* RootPathItem::is_dir
IsDir(item) == HoardFileIsDir(Node(item))

\* Filters::keep
FiltersKeep(filters, relative_path) == relative_path \notin filters

KeepIgnoringFilters(item) == IsFile(item) \/ IsDir(item)

\* RootPathItem::keep
Keep(item) ==
    /\ (IsFile(item) \/ IsDir(item))
    /\ FiltersKeep(item.filters, item.relative_path)

RootItem(pile_name, filters) ==
    [some |-> TRUE, pile_name |-> pile_name, relative_path |-> <<>>, filters |-> filters]

\* The pile names of a hoard: None for the pile of an anonymous hoard.
PileNames(shape) == IF shape = "Anonymous" THEN {None} ELSE {"dir", FilePile}

NewRootPathsOfEveryPile(shape, paths, filters) ==
    IF shape = "Anonymous"
    THEN <<RootItem(None, filters)>>
    ELSE <<RootItem("dir", filters), RootItem(FilePile, {})>>

\* AllFilesIter::new: the stack seeded with one item per pile whose path is
\* set.
NewRootPaths(shape, paths, filters) ==
    IF shape = "Anonymous"
    THEN IF None \in paths THEN <<RootItem(None, filters)>> ELSE <<>>
    ELSE SelectSeq(<<RootItem("dir", filters), RootItem(FilePile, {})>>,
                   LAMBDA item : item.pile_name \in paths)

\* fs::read_dir on one side fails with an error other than NotFound.
ReadDirFails(side, item) == <<side, Node(item)>> \in read_errors

\* fs::read_dir on one side: NotFound, or the children in listing order.
ReadDir(tree, order, item) ==
    IF Node(item) \notin tree
    THEN NoEntries
    ELSE LET names == SelectSeq(order,
                 LAMBDA c : <<item.pile_name, Append(item.relative_path, c)>> \in tree)
         IN SomeEntries([i \in 1..Len(names) |-> Append(item.relative_path, names[i])])

\* AllFilesIter::has_dir_entries
HasDirEntries(st) ==
    \/ (st.system_entries.some /\ st.system_entries.entries # <<>>)
    \/ (st.hoard_entries.some /\ st.hoard_entries.entries # <<>>)

Continue(st) == [st |-> st, kind |-> "continue", file |-> NoFile]

ReturnNoneAndReseed(st) ==
    [st |-> [st EXCEPT !.root_paths =
                IF st.current_root.some
                THEN <<[st.current_root EXCEPT !.relative_path = <<>>]>>
                ELSE <<>>],
     kind |-> "None", file |-> NoFile]

\* return Some(None): the work stack is empty.
ReturnNone(st) == [st |-> st, kind |-> "None", file |-> NoFile]

ReturnFile(st, item) == [st |-> st, kind |-> "Ok", file |-> Node(item)]

\* Some(Err(err)) for a directory that could not be read.
ReturnErr(st, item) == [st |-> st, kind |-> "Err", file |-> Node(item)]

\* expect("current_root should not be None") fails.
Panic(st) == [st |-> st, kind |-> "Panic", file |-> NoFile]

PopFront(paths) == [item |-> Head(paths), rest |-> Tail(paths)]

\* Vec::pop on a non-empty work stack.
Pop(paths) == [item |-> paths[Len(paths)], rest |-> SubSeq(paths, 1, Len(paths) - 1)]

\* The value of a one-element set. A definition of a LET is evaluated at
\* each of its uses when ENABLED is computed, a bound variable only once:
\* LET x == e IN f(x) is written The({f(x) : x \in {e}}) where e is costly.
The(S) == CHOOSE v \in S : TRUE

\* AllFilesIter::ensure_dir_entries
RECURSIVE EnsureDirEntries(_)
EnsureDirEntries(st) ==
    IF HasDirEntries(st) THEN Continue(st)
    ELSE IF st.root_paths = <<>> THEN ReturnNone(st)
    ELSE The({
        IF Keep(item)
        THEN IF IsFile(item) THEN ReturnFile(st1, item)
             ELSE IF IsDir(item)
             THEN IF ReadDirFails("system", item) THEN ReturnErr(st1, item)
                  ELSE The({
                      IF ReadDirFails("hoard", item) THEN ReturnErr(st2, item)
                      ELSE The({EnsureDirEntries(st3) : st3 \in
                                 {[st2 EXCEPT !.hoard_entries =
                                                  ReadDir(hoard_tree, hoard_order, item),
                                              !.current_root = item]}})
                      : st2 \in {[st1 EXCEPT !.system_entries =
                                     ReadDir(system_tree, sys_order, item)]}})
             ELSE EnsureDirEntries(st1)
        ELSE EnsureDirEntries(st1)
        : item \in {Pop(st.root_paths).item},
          st1 \in {[st EXCEPT !.root_paths = Pop(@).rest]}})

\* The child item built from a directory entry.
NewItem(st, relative_path) ==
    [some |-> TRUE, pile_name |-> st.current_root.pile_name,
     relative_path |-> relative_path, filters |-> st.current_root.filters]

\* The loop of next() over system_entries.
RECURSIVE DrainSystem(_)
DrainSystem(st) ==
    IF ~st.system_entries.some \/ st.system_entries.entries = <<>> THEN Continue(st)
    ELSE The({
        IF Keep(new_item)
        THEN IF IsFile(new_item) THEN ReturnFile(st1, new_item)
             ELSE IF IsDir(new_item)
             THEN The({DrainSystem(st2) : st2 \in
                        {[st1 EXCEPT !.root_paths = Append(@, new_item)]}})
             ELSE DrainSystem(st1)
        ELSE DrainSystem(st1)
        : new_item \in {NewItem(st, Head(st.system_entries.entries))},
          st1 \in {[st EXCEPT !.system_entries.entries = Tail(@)]}})

DrainHoardSkipped(st) == Continue([st EXCEPT !.hoard_entries.entries = <<>>])

\* The loop of next() over hoard_entries.
RECURSIVE DrainHoard(_)
DrainHoard(st) ==
    IF ~st.hoard_entries.some \/ st.hoard_entries.entries = <<>> THEN Continue(st)
    ELSE The({
        IF Keep(new_item)
        THEN IF IsFile(new_item) THEN ReturnFile(st1, new_item)
             ELSE IF IsDir(new_item)
             THEN The({DrainHoard(st2) : st2 \in
                        {[st1 EXCEPT !.root_paths = Append(@, new_item)]}})
             ELSE DrainHoard(st1)
        ELSE DrainHoard(st1)
        : new_item \in {NewItem(st, Head(st.hoard_entries.entries))},
          st1 \in {[st EXCEPT !.hoard_entries.entries = Tail(@)]}})

\* AllFilesIter::next
RECURSIVE AllFilesIterNext(_)
AllFilesIterNext(st) ==
    The({
        IF e.kind # "continue" THEN e
        ELSE IF ~e.st.current_root.some THEN Panic(e.st)
        ELSE The({
            IF s.kind # "continue" THEN s
            ELSE The({
                IF h.kind # "continue" THEN h
                ELSE AllFilesIterNext(h.st)
                : h \in {DrainHoard(s.st)}})
            : s \in {DrainSystem(e.st)}})
        : e \in {EnsureDirEntries(st)}})

IterState ==
    [root_paths |-> root_paths, system_entries |-> system_entries,
     hoard_entries |-> hoard_entries, current_root |-> current_root]

InitFiles ==
    /\ \E shape \in {"Anonymous", "Named"} :
          /\ system_tree \in Trees(shape)
          /\ hoard_tree \in Trees(shape)
          /\ \E filters \in IgnoreChoices :
                /\ ignore = filters
                /\ root_paths = NewRootPaths(shape, PileNames(shape), filters)
          /\ pile_paths = PileNames(shape)
    /\ read_errors = {}
    /\ sys_order \in Orders
    /\ hoard_order \in Orders
    /\ system_entries = NoEntries
    /\ hoard_entries = NoEntries
    /\ current_root = NoRoot
    /\ yielded = <<>>
    /\ IdleOp /\ IdleClean /\ IdleUp /\ IdleDiff /\ IdleRun /\ IdleGame

\* The stream has returned None twice in a row: no further call is modelled.
Exhausted ==
    /\ Len(yielded) >= 2
    /\ yielded[Len(yielded)].kind = "None"
    /\ yielded[Len(yielded) - 1].kind = "None"

\* A call of next has panicked: the iterator is gone.
Panicked == Len(yielded) >= 1 /\ yielded[Len(yielded)].kind = "Panic"

\* One call of AllFilesIter::next by the consumer.
AllFilesNext ==
    /\ ~Exhausted
    /\ ~Panicked
    /\ \E r \in {AllFilesIterNext(IterState)} :
          /\ root_paths' = r.st.root_paths
          /\ system_entries' = r.st.system_entries
          /\ hoard_entries' = r.st.hoard_entries
          /\ current_root' = r.st.current_root
          /\ yielded' = Append(yielded, [kind |-> r.kind, file |-> r.file])
    /\ UNCHANGED <<system_tree, hoard_tree, ignore, read_errors, pile_paths, sys_order,
                   hoard_order>>
    /\ UNCHANGED <<opVars, cleanVars, upVars, diffVars, runVars, gameVars>>

NextFiles == AllFilesNext

SpecFiles == InitFiles /\ [][NextFiles]_vars

\* The stream has ended.
Finished == Len(yielded) >= 1 /\ yielded[Len(yielded)].kind = "None"

YieldedFiles == {yielded[i].file : i \in {j \in 1..Len(yielded) : yielded[j].kind = "Ok"}}

\* A path is ignored when a glob matches it or one of its directories.
Ignored(n) ==
    \E k \in 0..Len(n[2]) : n[1] # FilePile /\ SubSeq(n[2], 1, k) \in ignore

\* filter(system_tree \cup hoard_tree): the non-ignored files of either side.
ExpectedFiles ==
    {n \in system_tree \cup hoard_tree : ~IsDirNode(n) /\ ~Ignored(n)}

(***************************************************************************)
(* C2                                                                      *)
(***************************************************************************)
\* C2: AllFilesIter yields each distinct (pile_name, relative_path) at most
\* once over the whole stream.
C2_YieldedOnce ==
    \A i, j \in 1..Len(yielded) :
        (i < j /\ yielded[i].kind = "Ok" /\ yielded[j].kind = "Ok")
            => yielded[i].file # yielded[j].file

(***************************************************************************)
(* C3                                                                      *)
(***************************************************************************)
\* C3: nothing outside filter(system_tree \cup hoard_tree) is ever yielded,
\* and when the stream ends the set of yielded (pile_name, relative_path)
\* equals that set; a directory missing on one side hides nothing of the
\* other side.
C3_UnionCoverage ==
    /\ YieldedFiles \subseteq ExpectedFiles
    /\ Finished => YieldedFiles = ExpectedFiles

\* The stream ended after yielding a file of a directory that exists only in
\* the hoard and a file of a directory that exists only on the system.
C3_Witness ==
    /\ Finished
    /\ \E n \in YieldedFiles :
          /\ Len(n[2]) = 3
          /\ <<n[1], Parent(n[2])>> \in hoard_tree \ system_tree
    /\ \E n \in YieldedFiles :
          /\ n[2] = <<"a.txt">>
          /\ n \in system_tree \ hoard_tree

(***************************************************************************)
(* cleanup_operations                                                      *)
(***************************************************************************)
\* The system cleanup_operations runs on.
LocalSystem == "local"

\* UUID-named directories of the history root.
Systems == {LocalSystem, "remote"}

Hoards == {"anon_txt"}

\* An entry of the history root that is a directory without a UUID name, and
\* one that has a UUID name but is a regular file.
NotUuidDir == "not_a_uuid"
UuidNamedFile == "uuid_named_file"

\* Uuid::parse_str(name).is_ok()
UuidParses(name) == name \in Systems \cup {UuidNamedFile}

\* entry.path().is_dir() for an entry of the history root.
RootEntryIsDir(name) == name # UuidNamedFile

IsSystemDirAnyDirectory(name) == RootEntryIsDir(name)

\* The filter on the entries of the history root: directories with UUIDs
\* for names.
IsSystemDir(name) == RootEntryIsDir(name) /\ UuidParses(name)

\* How an entry below the history root is named and what it is:
\*   "log"            <TIME_FORMAT>.log, a regular file of a hoard directory
\*   "iso"            <yyyy-mm-ddThh:mm:ss>.log, a regular file
\*   "no_subsecond"   <TIME_FORMAT without the subsecond>.log, a regular file
\*   "last_paths"     last_paths.json inside a hoard directory
\*   "directory"      a directory of a hoard directory, named <TIME_FORMAT>.log
\*   "system_file"    last_paths.json directly inside a system directory
\*   "root_file"      a regular file directly inside the history root
Forms ==
    {"log", "iso", "no_subsecond", "last_paths", "directory", "system_file", "root_file"}

\* A file <history_root>/<system>/<hoard>/<name> with the UTC time its name
\* renders (microseconds after 2023-12-31 23:59:00) and the direction
\* recorded in it.
LogFiles ==
    [system : Systems, hoard : Hoards, timestamp : 1..MaxTime, direction : Directions,
     form : {"log"}]

\* The calendar fields of a UTC time, for times less than an hour after
\* 2023-12-31 23:59:00.
TimeFields(timestamp) ==
    LET seconds == timestamp \div 1000000
        minutes == 59 + seconds \div 60
        rolled == minutes >= 60
    IN [year |-> IF rolled THEN 2024 ELSE 2023,
        month |-> IF rolled THEN 1 ELSE 12,
        day |-> IF rolled THEN 1 ELSE 31,
        hour |-> IF rolled THEN 0 ELSE 23,
        minute |-> minutes % 60,
        second |-> seconds % 60,
        subsecond |-> timestamp % 1000000]

DigitChar(d) == <<"0", "1", "2", "3", "4", "5", "6", "7", "8", "9">>[d + 1]

\* A number as `width` decimal digits, padded with zeros.
RECURSIVE Digits(_, _)
Digits(value, width) ==
    IF width = 0 THEN <<>>
    ELSE Append(Digits(value \div 10, width - 1), DigitChar(value % 10))

TimeFormatDayFirst(timestamp) ==
    LET t == TimeFields(timestamp)
    IN Digits(t.day, 2) \o <<"_">> \o Digits(t.month, 2) \o <<"_">> \o Digits(t.year, 4)
         \o <<"-">> \o Digits(t.hour, 2) \o <<"_">> \o Digits(t.minute, 2) \o <<"_">>
         \o Digits(t.second, 2) \o <<".">> \o Digits(t.subsecond, 6)

\* TIME_FORMAT:
\* [year]_[month]_[day]-[hour repr:24]_[minute]_[second].[subsecond digits:6]
TimeFormat(timestamp) ==
    LET t == TimeFields(timestamp)
    IN Digits(t.year, 4) \o <<"_">> \o Digits(t.month, 2) \o <<"_">> \o Digits(t.day, 2)
         \o <<"-">> \o Digits(t.hour, 2) \o <<"_">> \o Digits(t.minute, 2) \o <<"_">>
         \o Digits(t.second, 2) \o <<".">> \o Digits(t.subsecond, 6)

\* The same time as 2024-01-02T03:04:05.
IsoFormat(timestamp) ==
    LET t == TimeFields(timestamp)
    IN Digits(t.year, 4) \o <<"-">> \o Digits(t.month, 2) \o <<"-">> \o Digits(t.day, 2)
         \o <<"T">> \o Digits(t.hour, 2) \o <<":">> \o Digits(t.minute, 2) \o <<":">>
         \o Digits(t.second, 2)

DotLog == <<".", "l", "o", "g">>

LastPathsJson ==
    <<"l", "a", "s", "t", "_", "p", "a", "t", "h", "s", ".", "j", "s", "o", "n">>

\* UTC times around the changes of a digit of the subsecond, the second, the
\* minute and the year.
NameStamps == {9, 10, 999999, 1000000, 9000000, 10000000, 59999999, 60000000}

\* The times a file name of the model may render.
Stamps == (1..MaxTime) \cup NameStamps

\* The name of an entry of the given form made at the given time.
RenderFileName(form, timestamp) ==
    CASE form \in {"log", "directory"} -> TimeFormat(timestamp) \o DotLog
      [] form = "iso" -> IsoFormat(timestamp) \o DotLog
      [] form = "no_subsecond" -> SubSeq(TimeFormat(timestamp), 1, 19) \o DotLog
      [] OTHER -> LastPathsJson

FileNames == [form \in Forms |-> [timestamp \in Stamps |-> RenderFileName(form, timestamp)]]

\* Path::file_name of an entry.
FileName(file) == FileNames[file.form][file.timestamp]

\* Path::is_file of an entry.
PathIsFile(file) == file.form # "directory"

IsDigit(c) == c \in {"0", "1", "2", "3", "4", "5", "6", "7", "8", "9"}

\* LOG_FILE_REGEX, position by position ("#" stands for [0-9]):
\* ^[0-9]{4}(_[0-9]{2}){2}-([0-9]{2}_){2}([0-9]{2})\.[0-9]{6}\.log$
LogFilePattern ==
    <<"#", "#", "#", "#", "_", "#", "#", "_", "#", "#", "-", "#", "#", "_", "#", "#",
      "_", "#", "#", ".", "#", "#", "#", "#", "#", "#", ".", "l", "o", "g">>

LogFileRegexIsMatchAnyLog(name) ==
    /\ Len(name) >= Len(DotLog)
    /\ SubSeq(name, Len(name) - Len(DotLog) + 1, Len(name)) = DotLog

\* LOG_FILE_REGEX.is_match
LogFileRegexIsMatch(name) ==
    /\ Len(name) = Len(LogFilePattern)
    /\ \A i \in 1..Len(name) :
          IF LogFilePattern[i] = "#" THEN IsDigit(name[i]) ELSE name[i] = LogFilePattern[i]

LogNames ==
    [form \in Forms |-> [timestamp \in Stamps |-> LogFileRegexIsMatch(FileNames[form][timestamp])]]

\* file_is_log
FileIsLog(file) == PathIsFile(file) /\ LogNames[file.form][file.timestamp]

\* The entries of one hoard directory.
LogsIn(logs, system, hoard) == {l \in logs : l.system = system /\ l.hoard = hoard}

\* The files of one hoard directory that cleanup_operations collects.
ReadLogs(logs, system, hoard) == {l \in LogsIn(logs, system, hoard) : FileIsLog(l)}

\* The byte of a character of a file name.
CharCode(c) ==
    CASE c = "-" -> 45
      [] c = "." -> 46
      [] IsDigit(c) -> 48 + (CHOOSE d \in 0..9 : DigitChar(d) = c)
      [] c = ":" -> 58
      [] c = "T" -> 84
      [] c = "_" -> 95
      [] OTHER -> 97 + (CHOOSE k \in 0..25 :
                          <<"a", "b", "c", "d", "e", "f", "g", "h", "i", "j", "k", "l", "m",
                            "n", "o", "p", "q", "r", "s", "t", "u", "v", "w", "x", "y",
                            "z">>[k + 1] = c)

\* Ord of two file names of one directory: byte by byte.
RECURSIVE NameLess(_, _)
NameLess(a, b) ==
    IF b = <<>> THEN FALSE
    ELSE IF a = <<>> THEN TRUE
    ELSE IF Head(a) = Head(b) THEN NameLess(Tail(a), Tail(b))
    ELSE CharCode(Head(a)) < CharCode(Head(b))

\* The order of the file names of the model.
NameOrder ==
    [a \in Forms \X Stamps |->
        [b \in Forms \X Stamps |-> NameLess(FileNames[a[1]][a[2]], FileNames[b[1]][b[2]])]]

\* PathBuf::cmp for two files of one directory.
PathLess(l, m) == NameOrder[<<l.form, l.timestamp>>][<<m.form, m.timestamp>>]

\* files.sort_unstable(): the logs of one directory by file name.
RECURSIVE SortFiles(_)
SortFiles(logs) ==
    IF logs = {} THEN <<>>
    ELSE LET first == CHOOSE l \in logs : \A m \in logs \ {l} : PathLess(l, m)
         IN <<first>> \o SortFiles(logs \ {first})

\* Operation::is_backup
IsBackup(log) == log.direction = "Backup"

\* Vec::remove
RemoveAt(seq, i) == SubSeq(seq, 1, i - 1) \o SubSeq(seq, i + 1, Len(seq))

FilesToDeleteEarliestBackup(logs) ==
    LET sorted == SortFiles(logs)
    IN IF sorted = <<>> THEN <<>>
       ELSE LET recent == sorted[Len(sorted)]
                files == SubSeq(sorted, 1, Len(sorted) - 1)
                backups == {i \in 1..Len(files) : IsBackup(files[i])}
            IN IF ~IsBackup(recent) /\ backups # {}
               THEN RemoveAt(files, CHOOSE i \in backups : \A j \in backups : i <= j)
               ELSE files

\* The deletion list of one (system, hoard) directory: every log but the
\* most recent one and, when that one is not a backup, the latest backup.
FilesToDelete(logs) ==
    LET sorted == SortFiles(logs)
    IN IF sorted = <<>> THEN <<>>
       ELSE LET recent == sorted[Len(sorted)]
                files == SubSeq(sorted, 1, Len(sorted) - 1)
                backups == {i \in 1..Len(files) : IsBackup(files[i])}
            IN IF ~IsBackup(recent) /\ backups # {}
               THEN RemoveAt(files, CHOOSE i \in backups : \A j \in backups : i >= j)
               ELSE files

\* Orders in which read_dir may list the system directories.
SystemOrders ==
    {o \in [1..Cardinality(Systems) -> Systems] : \A s \in Systems : \E i \in DOMAIN o : o[i] = s}

HoardOrders ==
    {o \in [1..Cardinality(Hoards) -> Hoards] : \A h \in Hoards : \E i \in DOMAIN o : o[i] = h}

\* .flatten().flatten(): the deletion lists of all directories, in listing order.
\* What read_dir lists in the history root: the system directories in the
\* given order and the other entries.
RootListing(system_listing) == <<NotUuidDir>> \o system_listing \o <<UuidNamedFile>>

\* last_paths.json as an entry of a system directory.
LastPathsFile == "last_paths.json"

\* What read_dir lists in a system directory: the hoard directories in the
\* given order and last_paths.json.
SystemDirListing(hoard_listing) == hoard_listing \o <<LastPathsFile>>

\* path.is_dir() for an entry of a system directory.
HoardPathIsDir(name) == name # LastPathsFile

RECURSIVE FlattenHoards(_, _, _)
FlattenHoards(logs, system, hoard_listing) ==
    IF hoard_listing = <<>> THEN <<>>
    ELSE FilesToDelete(ReadLogs(logs, system, Head(hoard_listing)))
            \o FlattenHoards(logs, system, Tail(hoard_listing))

RECURSIVE FlattenSystems(_, _, _)
FlattenSystems(logs, system_listing, hoard_listing) ==
    IF system_listing = <<>> THEN <<>>
    ELSE FlattenHoards(logs, Head(system_listing), hoard_listing)
            \o FlattenSystems(logs, Tail(system_listing), hoard_listing)

\* The fold over the lazily mapped fs::remove_file results: every path of
\* the list is passed to remove_file; the accumulator keeps the count of the
\* successes before the first failure.
RECURSIVE FoldRemove(_, _, _)
FoldRemove(acc, list, failing) ==
    IF list = <<>> THEN acc
    ELSE LET path == Head(list)
             removed == IF path \in failing THEN acc.removed ELSE acc.removed \cup {path}
             next == IF ~acc.ok THEN [acc EXCEPT !.removed = removed]
                     ELSE IF path \in failing
                          THEN [ok |-> FALSE, count |-> acc.count, removed |-> removed]
                          ELSE [ok |-> TRUE, count |-> acc.count + 1, removed |-> removed]
         IN FoldRemove(next, Tail(list), failing)

SeqRange(seq) == {seq[i] : i \in 1..Len(seq)}

InitClean ==
    /\ history = {}
    /\ clock = 1
    /\ cleanup = NoCleanup
    /\ IdleOp /\ IdleFiles /\ IdleUp /\ IdleDiff /\ IdleRun /\ IdleGame

WriteLogRotating ==
    /\ clock <= MaxTime
    /\ \E system \in Systems, hoard \in Hoards, dir \in Directions :
          history' = (history \ LogsIn(history, system, hoard)) \cup
              {[system |-> system, hoard |-> hoard, timestamp |-> clock, direction |-> dir,
                form |-> "log"]}
    /\ clock' = clock + 1
    /\ cleanup' = NoCleanup
    /\ UNCHANGED <<opVars, filesVars, upVars, diffVars, runVars, gameVars>>

\* A backup or restore of some system commits its log.
WriteLog ==
    /\ clock <= MaxTime
    /\ \E system \in Systems, hoard \in Hoards, dir \in Directions :
          history' = history \cup
              {[system |-> system, hoard |-> hoard, timestamp |-> clock, direction |-> dir,
                form |-> "log"]}
    /\ clock' = clock + 1
    /\ cleanup' = NoCleanup
    /\ UNCHANGED <<opVars, filesVars, upVars, diffVars, runVars, gameVars>>

\* The directories cleanup_operations lists with read_dir: the history
\* root, every system directory, every hoard directory of each.
ListedDirs ==
    {<<>>} \cup {<<system>> : system \in {x \in Systems : IsSystemDir(x)}}
           \cup {<<system, hoard>> : system \in {x \in Systems : IsSystemDir(x)},
                                     hoard \in {x \in Hoards : HoardPathIsDir(x)}}

\* The logs of one directory that cleanup_operations parses with
\* Operation::from_file: the most recent one and, when that is not a
\* backup, the earlier ones from the newest down to the latest backup.
ParsedLogs(logs) ==
    LET sorted == SortFiles(logs)
    IN IF sorted = <<>> THEN {}
       ELSE LET recent == sorted[Len(sorted)]
                files == SubSeq(sorted, 1, Len(sorted) - 1)
                backups == {i \in 1..Len(files) : IsBackup(files[i])}
                from == IF backups = {} THEN 1
                        ELSE CHOOSE i \in backups : \A j \in backups : i >= j
            IN IF IsBackup(recent) THEN {recent}
               ELSE {recent} \cup {files[i] : i \in from..Len(files)}

\* What cleanup_operations has removed when building its list failed, had the
\* directories been pruned one by one as they are listed.
RemovedOnBuildErrorDirByDir(logs) ==
    {l \in logs : l.system = LocalSystem
                    /\ l \in SeqRange(FilesToDelete(ReadLogs(logs, l.system, l.hoard)))}

\* What cleanup_operations has removed when building its list failed: the
\* list is collected whole, with `?`, before the first remove_file.
RemovedOnBuildError(logs) == {}

\* One run of cleanup_operations on the local system: read_dir may fail on
\* any directory it lists, Operation::from_file on any log it parses, and
\* remove_file on any of the files of the list.
CleanupOperations ==
    /\ \/ \E system_listing \in SystemOrders, hoard_listing \in HoardOrders :
            LET systems == SelectSeq(RootListing(system_listing), IsSystemDir)
                hoards == SelectSeq(SystemDirListing(hoard_listing), HoardPathIsDir)
                list == FlattenSystems(history, systems, hoards)
            IN \E failing \in SUBSET SeqRange(list) :
                 LET r == FoldRemove([ok |-> TRUE, count |-> 0, removed |-> {}], list, failing)
                 IN /\ history' = history \ r.removed
                    /\ cleanup' = [ran |-> TRUE, pre |-> history, list |-> list,
                                   failed |-> failing, ok |-> r.ok, count |-> r.count,
                                   error |-> IF r.ok THEN None ELSE "remove_file"]
       \/ \E dir \in ListedDirs :
            /\ history' = history \ RemovedOnBuildError(history)
            /\ cleanup' = [ran |-> TRUE, pre |-> history, list |-> <<>>,
                           failed |-> {}, ok |-> FALSE, count |-> 0,
                           error |-> "read_dir"]
       \/ \E system \in Systems, hoard \in Hoards :
            \E log \in ParsedLogs(ReadLogs(history, system, hoard)) :
              /\ IsSystemDir(system) /\ HoardPathIsDir(hoard)
              /\ history' = history \ RemovedOnBuildError(history)
              /\ cleanup' = [ran |-> TRUE, pre |-> history, list |-> <<>>,
                             failed |-> {}, ok |-> FALSE, count |-> 0,
                             error |-> "from_file"]
    /\ UNCHANGED clock
    /\ UNCHANGED <<opVars, filesVars, upVars, diffVars, runVars, gameVars>>

NextClean == WriteLog \/ CleanupOperations

SpecClean == InitClean /\ [][NextClean]_vars

\* The latest log of a directory.
Latest(logs) == CHOOSE l \in logs : \A m \in logs : m.timestamp <= l.timestamp

\* The retention rule of section 4.7 for the logs of one directory.
Retained(logs) ==
    IF logs = {} THEN {}
    ELSE LET backups == {l \in logs \ {Latest(logs)} : l.direction = "Backup"}
         IN IF Latest(logs).direction = "Backup" \/ backups = {}
            THEN {Latest(logs)}
            ELSE {Latest(logs), Latest(backups)}

(***************************************************************************)
(* C4                                                                      *)
(***************************************************************************)
\* C4: after a successful cleanup_operations every (system, hoard)
\* directory holds exactly its latest log, plus the latest Backup before it
\* when the latest log is a Restore.
C4_Retention ==
    (cleanup.ran /\ cleanup.ok) =>
        \A system \in Systems, hoard \in Hoards :
            LogsIn(history, system, hoard) = Retained(LogsIn(cleanup.pre, system, hoard))

\* A successful cleanup of a directory B1, B2, R3 left {B2, R3}.
C4_Witness ==
    /\ cleanup.ran /\ cleanup.ok
    /\ \E system \in Systems, hoard \in Hoards :
          LET pre == LogsIn(cleanup.pre, system, hoard)
              post == LogsIn(history, system, hoard)
          IN /\ Cardinality(pre) = 3
             /\ \E b1, b2, r3 \in pre :
                   /\ b1.timestamp < b2.timestamp /\ b2.timestamp < r3.timestamp
                   /\ b1.direction = "Backup" /\ b2.direction = "Backup"
                   /\ r3.direction = "Restore"
                   /\ post = {b2, r3}

(***************************************************************************)
(* C5                                                                      *)
(***************************************************************************)
\* C5: when deleting one log fails, no log that comes after it in the
\* deletion list is removed from disk.
C5_AbortAfterFailure ==
    cleanup.ran =>
        \A i, j \in 1..Len(cleanup.list) :
            (i < j /\ cleanup.list[i] \in cleanup.failed) => cleanup.list[j] \in history

(***************************************************************************)
(* C6                                                                      *)
(***************************************************************************)
\* C6: the count cleanup_operations returns, in Ok(n) and in Err((n, e)),
\* is the number of log files that run removed from disk.
C6_ReturnedCount ==
    cleanup.ran => cleanup.count = Cardinality(cleanup.pre \ history)

V1Checksums == {"d3369a02", "1cfab2a1"}

\* Checksum::MD5 of a v1 checksum string.
MD5(hex) == <<"md5", hex>>

\* (pile_name, relative_path) keys of the hoard being upgraded.
V1Keys(shape) ==
    IF shape = "Anonymous"
    THEN {<<None, "file_1">>, <<None, "file_2">>}
    ELSE {<<"dir", "file_1">>, <<"single_file", "">>}

\* File maps of a v1 log: the paths present at the time, with checksums.
V1FileMaps(shape) ==
    UNION {[keys -> V1Checksums] : keys \in SUBSET V1Keys(shape)}

\* Hoard names the configuration may give the hoard being upgraded.
HoardNames == {"anon_file", "saves"}

\* The hoard_name of the next v1 log: the logs of one hoard's history
\* directory carry that hoard's name.
V1HoardNames ==
    IF v1_logs = <<>> THEN HoardNames ELSE {v1_logs[1].hoard_name}

\* v1 logs of a hoard of the given shape, at the given position in time.
V1Logs(shape, timestamp) ==
    [timestamp : {timestamp}, is_backup : BOOLEAN, hoard_name : V1HoardNames,
     hoard : {shape}, files : V1FileMaps(shape)]

\* The arm of the loop of from_v1 that classifies one file of the v1 log.
Classify(checksums, pile_file, checksum) ==
    IF pile_file \in DOMAIN checksums
    THEN IF checksums[pile_file] = NoChecksum THEN "created"
         ELSE IF checksums[pile_file] = Some(checksum) THEN "unmodified"
         ELSE "modified"
    ELSE "created"

DeletedPathsAll(old_set, these_files) == old_set

DeletedPathsReversed(old_set, these_files) == these_files \ old_set

\* file_set.difference(&these_files)
DeletedPaths(old_set, these_files) == old_set \ these_files

\* The Pile from_v1 builds for one pile name.
PileOfV1(checksums, old_set, old_v1, pile_name) ==
    LET here == {k \in DOMAIN old_v1.files : k[1] = pile_name}
        PathsOf(class) ==
            {k[2] : k \in {x \in here :
                Classify(checksums, x, MD5(old_v1.files[x])) = class}}
        MapOf(class) ==
            [path \in PathsOf(class) |-> MD5(old_v1.files[<<pile_name, path>>])]
    IN [created |-> MapOf("created"),
        modified |-> MapOf("modified"),
        unmodified |-> MapOf("unmodified"),
        deleted |-> {k[2] : k \in {x \in DeletedPaths(old_set, DOMAIN old_v1.files) :
                                      x[1] = pile_name}}]

\* The `files` map of from_v1 before the shape is chosen: one Pile per pile
\* name that has a file in the log or a deleted path.
FilesOfV1(checksums, old_set, old_v1) ==
    LET names == {k[1] : k \in DOMAIN old_v1.files}
                   \cup {k[1] : k \in DeletedPaths(old_set, DOMAIN old_v1.files)}
    IN [name \in names |-> PileOfV1(checksums, old_set, old_v1, name)]

\* The Hoard value of the v2 log: Anonymous(Pile) or Named(map).
HoardOfV1(checksums, old_set, old_v1) ==
    LET files == FilesOfV1(checksums, old_set, old_v1)
    IN IF old_v1.hoard = "Anonymous"
       THEN [shape |-> "Anonymous",
             piles |-> [name \in {None} |->
                          IF None \in DOMAIN files THEN files[None]
                          ELSE [DefaultPile EXCEPT !.deleted = {""}]]]
       ELSE [shape |-> "Named",
             piles |-> [name \in (DOMAIN files) \ {None} |-> files[name]]]

\* PathBuf::new(), also PathBuf::default().
DefaultPathBuf == ""

\* v1 OperationV1::direction: is_backup as a Direction.
V1DirectionAlwaysBackup(old_v1) == "Backup"

V1Direction(old_v1) == IF old_v1.is_backup THEN "Backup" ELSE "Restore"

\* OperationV2::from_v1: the v2 log and the updated carry values.
FromV1(checksums, old_set, old_v1) ==
    [v2 |-> [timestamp |-> old_v1.timestamp,
             direction |-> V1Direction(old_v1),
             hoard |-> old_v1.hoard_name,
             files |-> HoardOfV1(checksums, old_set, old_v1),
             hoards_root |-> DefaultPathBuf],
     file_checksums |->
        [k \in (DOMAIN checksums) \cup (DOMAIN old_v1.files) |->
            IF k \in DOMAIN old_v1.files THEN Some(MD5(old_v1.files[k]))
            ELSE checksums[k]],
     file_set |-> DOMAIN old_v1.files]

InitUp ==
    /\ v1_shape \in {"Anonymous", "Named"}
    /\ file_checksums = EmptyMap
    /\ file_set = {}
    /\ v1_logs = <<>>
    /\ v2_logs = <<>>
    /\ IdleOp /\ IdleFiles /\ IdleClean /\ IdleDiff /\ IdleRun /\ IdleGame

\* One step of the upgrade fold: the next v1 log of the hoard, in
\* chronological order, is converted by from_v1.
UpgradeNext ==
    /\ v1_shape \in {"Anonymous", "Named"}
    /\ Len(v1_logs) < MaxV1Logs
    /\ \E old_v1 \in V1Logs(v1_shape, Len(v1_logs) + 1) :
          LET r == FromV1(file_checksums, file_set, old_v1)
          IN /\ v1_logs' = Append(v1_logs, old_v1)
             /\ v2_logs' = Append(v2_logs, r.v2)
             /\ file_checksums' = r.file_checksums
             /\ file_set' = r.file_set
    /\ UNCHANGED v1_shape
    /\ UNCHANGED <<opVars, filesVars, cleanVars, diffVars, runVars, gameVars>>

NextUp == UpgradeNext

SpecUp == InitUp /\ [][NextUp]_vars

\* The Pile of a v2 log for a pile name, or the empty Pile.
V2Pile(v2, pile_name) ==
    IF pile_name \in DOMAIN v2.files.piles THEN v2.files.piles[pile_name] ELSE DefaultPile

\* The categories of a Pile that hold a path with a checksum.
CategoriesOf(pile, path) ==
    {c \in {"created", "modified", "unmodified"} :
        CASE c = "created" -> path \in DOMAIN pile.created
          [] c = "modified" -> path \in DOMAIN pile.modified
          [] c = "unmodified" -> path \in DOMAIN pile.unmodified}

ChecksumIn(pile, path) ==
    IF path \in DOMAIN pile.created THEN pile.created[path]
    ELSE IF path \in DOMAIN pile.modified THEN pile.modified[path]
    ELSE pile.unmodified[path]

(***************************************************************************)
(* C8                                                                      *)
(***************************************************************************)
\* C8: every path of a v1 log is in exactly one of created, modified,
\* unmodified of the corresponding v2 log, with the v1 checksum, and every
\* path of the preceding v1 log that is absent from this one is in deleted.
C8_RoundShape ==
    /\ Len(v2_logs) = Len(v1_logs)
    /\ \A i \in 1..Len(v1_logs) :
          /\ \A k \in DOMAIN v1_logs[i].files :
                LET pile == V2Pile(v2_logs[i], k[1])
                IN /\ Cardinality(CategoriesOf(pile, k[2])) = 1
                   /\ ChecksumIn(pile, k[2]) = MD5(v1_logs[i].files[k])
          /\ i > 1 =>
                \A k \in (DOMAIN v1_logs[i - 1].files) \ (DOMAIN v1_logs[i].files) :
                    k[2] \in V2Pile(v2_logs[i], k[1]).deleted

\* The second log modified one path and deleted another.
C8_Witness ==
    /\ Len(v2_logs) >= 2
    /\ \E k1, k2 \in DOMAIN v1_logs[1].files :
          /\ k1 # k2
          /\ k1 \in DOMAIN v1_logs[2].files
          /\ k1[2] \in DOMAIN V2Pile(v2_logs[2], k1[1]).modified
          /\ k2 \notin DOMAIN v1_logs[2].files
          /\ k2[2] \in V2Pile(v2_logs[2], k2[1]).deleted

(***************************************************************************)
(* C9                                                                      *)
(***************************************************************************)
\* C9: a path present in an earlier v1 log, absent from the log just before
\* this one, and present in this one is classified created in this v2 log,
\* whatever its checksum.
C9_RecreatedIsCreated ==
    \A i \in 1..Len(v1_logs) : \A k \in DOMAIN v1_logs[i].files :
        (/\ i > 2
         /\ k \notin DOMAIN v1_logs[i - 1].files
         /\ \E j \in 1..(i - 2) : k \in DOMAIN v1_logs[j].files)
        => k[2] \in DOMAIN V2Pile(v2_logs[i], k[1]).created

(***************************************************************************)
(* C10                                                                     *)
(***************************************************************************)
Disjoint(pile) ==
    /\ DOMAIN pile.created \cap DOMAIN pile.modified = {}
    /\ DOMAIN pile.created \cap DOMAIN pile.unmodified = {}
    /\ DOMAIN pile.created \cap pile.deleted = {}
    /\ DOMAIN pile.modified \cap DOMAIN pile.unmodified = {}
    /\ DOMAIN pile.modified \cap pile.deleted = {}
    /\ DOMAIN pile.unmodified \cap pile.deleted = {}

\* The logs built by from_v1 and the logs built by Hoard::new.
InitV2 == InitOp \/ InitUp

NextV2 == NextOp \/ NextUp

SpecV2 == InitV2 /\ [][NextV2]_vars

\* C10: in every Pile built by from_v1 and in every Pile built by
\* Hoard::new, the key sets of created, modified, unmodified and deleted are
\* pairwise disjoint.
C10_Disjointness ==
    /\ \A i \in 1..Len(v2_logs) :
          \A name \in DOMAIN v2_logs[i].files.piles :
              Disjoint(v2_logs[i].files.piles[name])
    /\ \A name \in DOMAIN inner.map : Disjoint(inner.map[name])
    /\ \A name \in DOMAIN hoard_new.piles : Disjoint(hoard_new.piles[name])

\* Hoard::new built a log with a created and a deleted path in one pile.
C10_Witness ==
    /\ hoard_new.shape = "Anonymous"
    /\ \E name \in DOMAIN hoard_new.piles :
          LET pile == hoard_new.piles[name]
          IN pile.deleted # {} /\ DOMAIN pile.created # {}

(***************************************************************************)
(* C11                                                                     *)
(***************************************************************************)
\* C11: in every v2 log of the fold a path is in unmodified only if the
\* immediately preceding log recorded the same checksum for it; a path the
\* preceding log recorded as deleted (or never recorded) is not in unmodified.
C11_UnmodifiedMatchesPrevious ==
    \A i \in 1..Len(v2_logs) : \A name \in DOMAIN v2_logs[i].files.piles :
        \A path \in DOMAIN v2_logs[i].files.piles[name].unmodified :
            /\ i > 1
            /\ <<name, path>> \in DOMAIN v1_logs[i - 1].files
            /\ MD5(v1_logs[i - 1].files[<<name, path>>])
                  = v2_logs[i].files.piles[name].unmodified[path]
            /\ path \notin V2Pile(v2_logs[i - 1], name).deleted

(***************************************************************************)
(* Serialization of OperationV2 (serde derives)                            *)
(***************************************************************************)
\* The root directory of the hoards a running command passes to
\* OperationV2::new.
HoardsRoots == {"/data/hoards"}

\* The name of the hoard a running command passes to OperationV2::new.
HoardName == "anon_txt"

\* OperationV2::new around the value of Hoard::new.
OperationV2New(root, name, dir, files, now) ==
    [timestamp |-> now, direction |-> dir, hoard |-> name, files |-> files,
     hoards_root |-> root]

\* The fields of a Pile, which are the keys of its serialized object.
PileKeys == {"created", "modified", "deleted", "unmodified"}

\* The Pile of an Anonymous value.
AnonymousPile(h) == h.piles[CHOOSE k \in DOMAIN h.piles : TRUE]

\* Serialize for the untagged enum Hoard: the content of the variant, with
\* nothing that names the variant.
SerializeHoard(h) ==
    IF h.shape = "Anonymous" THEN AnonymousPile(h) ELSE h.piles

\* Serialize for Direction and its inverse.
SerializeDirection(dir) == IF dir = "Backup" THEN "backup" ELSE "restore"

DeserializeDirection(str) == IF str = "backup" THEN "Backup" ELSE "Restore"

\* Serialize for OperationV2: hoards_root is skipped.
Serialize(op) ==
    [timestamp |-> <<"rfc3339", op.timestamp>>,
     direction |-> SerializeDirection(op.direction),
     hoard |-> op.hoard,
     files |-> SerializeHoard(op.files)]

\* Deserialize for the untagged enum Hoard: the first variant that parses.
\* A Pile parses from an object that has every field of Pile (no field has a
\* default); other keys are ignored.
DeserializeHoard(obj) ==
    IF PileKeys \subseteq DOMAIN obj
    THEN [shape |-> "Anonymous",
          piles |-> [name \in {None} |-> [k \in PileKeys |-> obj[k]]]]
    ELSE [shape |-> "Named", piles |-> obj]

\* Deserialize for OperationV2: hoards_root takes its default.
Deserialize(json) ==
    [timestamp |-> json.timestamp[2],
     direction |-> DeserializeDirection(json.direction),
     hoard |-> json.hoard,
     files |-> DeserializeHoard(json.files),
     hoards_root |-> DefaultPathBuf]

\* PartialEq for Hoard.
HoardEq(a, b) ==
    /\ a.shape = b.shape
    /\ IF a.shape = "Anonymous" THEN AnonymousPile(a) = AnonymousPile(b)
       ELSE a.piles = b.piles

\* PartialEq for OperationV2: every field, hoards_root included.
OperationV2Eq(a, b) ==
    /\ a.timestamp = b.timestamp
    /\ a.direction = b.direction
    /\ a.hoard = b.hoard
    /\ HoardEq(a.files, b.files)
    /\ a.hoards_root = b.hoards_root

\* The logs OperationV2::new returns once Hoard::new has returned Ok.
NewLogs ==
    IF hoard_new.shape \in {"Anonymous", "Named"}
    THEN {OperationV2New(root, HoardName, direction, hoard_new, now) :
            root \in HoardsRoots, now \in 1..MaxTime}
    ELSE {}

\* The logs from_v1 has returned.
UpgradedLogs == {v2_logs[i] : i \in 1..Len(v2_logs)}

(***************************************************************************)
(* C12                                                                     *)
(***************************************************************************)
\* C12: serializing and then deserializing a v2 log gives a value equal to
\* the log by the equality of OperationV2, for the logs of from_v1 and for
\* the logs of OperationV2::new (non-empty hoards_root, Named with an empty
\* pile map included).
C12_SerdeRoundTrip ==
    \A op \in NewLogs \cup UpgradedLogs :
        OperationV2Eq(Deserialize(Serialize(op)), op)

(***************************************************************************)
(* HoardDiffIter: one file of one hoard, seen from two systems             *)
(***************************************************************************)
\* Contents a copy of the file may have (all of them text).
Contents == {"default", "changed_a", "changed_b"}

\* The file of the anonymous single-file hoard.
TheFile == <<None, "">>

\* No log mentions the file.
NoLog ==
    [some |-> FALSE, system |-> None, direction |-> None, category |-> None,
     checksum |-> None, previous |-> None]

\* What one operation log records for the file: the category it is listed
\* under and its checksum (None under deleted). `previous` is "deleted" when
\* the preceding log of the same system recorded the deletion of the file.
LogEntry(system, dir, category, checksum, previous) ==
    [some |-> TRUE, system |-> system, direction |-> dir, category |-> category,
     checksum |-> checksum, previous |-> previous]

\* The most recent log of the given system that mentions the file.
LatestLocal(log, system) ==
    LET mine == {i \in 1..Len(log) : log[i].system = system}
    IN IF mine = {} THEN NoLog
       ELSE log[CHOOSE i \in mine : \A j \in mine : j <= i]

\* The most recent log of any system that mentions the file.
LatestOverall(log) == IF log = <<>> THEN NoLog ELSE log[Len(log)]

UnexpectedHoardContentNever(in_hoard, log) == FALSE

\* The hoard copy is not what the most recent log recorded for it.
UnexpectedHoardContent(in_hoard, log) ==
    in_hoard # LatestOverall(log).checksum

HasLocalChangesNever(on_system, log, system) == FALSE

\* The system copy is not what this system's last log recorded for it.
HasLocalChanges(on_system, log, system) ==
    on_system # LatestLocal(log, system).checksum

HasRemoteChangesNever(in_hoard, log, system) == FALSE

\* The hoard copy is not what this system's last log recorded for it: a
\* later log of another system changed it.
HasRemoteChanges(in_hoard, log, system) ==
    in_hoard # LatestLocal(log, system).checksum

DiffSourceOfBothAsRemote(on_system, in_hoard, log, system) ==
    IF UnexpectedHoardContent(in_hoard, log) THEN "Unknown"
    ELSE LET local == HasLocalChanges(on_system, log, system)
             remote == HasRemoteChanges(in_hoard, log, system)
         IN CASE local /\ remote -> "Remote"
              [] local /\ ~remote -> "Local"
              [] ~local /\ remote -> "Remote"
              [] OTHER -> None

\* The DiffSource of the file on the given system, None when unchanged.
DiffSourceOf(on_system, in_hoard, log, system) ==
    IF UnexpectedHoardContent(in_hoard, log) THEN "Unknown"
    ELSE LET local == HasLocalChanges(on_system, log, system)
             remote == HasRemoteChanges(in_hoard, log, system)
         IN CASE local /\ remote ->
                    IF (on_system = None) = (in_hoard = None) THEN "Mixed"
                    ELSE IF on_system = None THEN "Local" ELSE "Remote"
              [] local /\ ~remote -> "Local"
              [] ~local /\ remote -> "Remote"
              [] OTHER -> None

\* The variant for a change from what the log `prior` recorded to `now`.
VariantOfChange(prior, now) ==
    IF now = None THEN "Deleted"
    ELSE IF prior.checksum = None
         THEN IF prior.category = "deleted" THEN "Recreated" ELSE "Created"
         ELSE "TextModified"

DiffVariantOfRemoteCategory(on_system, in_hoard, log, system) ==
    LET source == DiffSourceOf(on_system, in_hoard, log, system)
        known == LatestLocal(log, system)
    IN CASE source = None -> "Unchanged"
         [] source = "Unknown" ->
                VariantOfChange(LatestOverall(log), in_hoard)
         [] source = "Remote" ->
                IF LatestOverall(log).category = "created" THEN "Recreated"
                ELSE VariantOfChange(known, in_hoard)
         [] OTHER -> VariantOfChange(known, on_system)

\* The variant of the diff: the net change from the prior known state (what
\* this system last recorded; for an out-of-band change, what the most
\* recent log recorded) to the side that changed.
DiffVariantOf(on_system, in_hoard, log, system) ==
    LET source == DiffSourceOf(on_system, in_hoard, log, system)
        known == LatestLocal(log, system)
    IN CASE source = None -> "Unchanged"
         [] source = "Unknown" ->
                VariantOfChange(LatestOverall(log), in_hoard)
         [] source = "Remote" -> VariantOfChange(known, in_hoard)
         [] OTHER -> VariantOfChange(known, on_system)

\* The item HoardDiffIter yields for the file on the given system.
DiffOf(on_system, in_hoard, log, system) ==
    [variant |-> DiffVariantOf(on_system, in_hoard, log, system),
     diff_source |-> DiffSourceOf(on_system, in_hoard, log, system),
     file |-> TheFile]

\* The file is in the diff stream: it exists on a side, or the logs know a
\* change of it.
InStream(on_system, in_hoard, log, system) ==
    \/ on_system # None
    \/ in_hoard # None
    \/ DiffSourceOf(on_system, in_hoard, log, system) # None

(***************************************************************************)
(* Backup and restore of the file                                          *)
(***************************************************************************)
ConflictDetectedUnknownOnly(diff, force) ==
    ~force /\ diff.diff_source = "Unknown"

\* The command refuses to execute the operation for this diff.
ConflictDetected(diff, force) ==
    ~force /\ diff.diff_source \in {"Mixed", "Unknown"}

\* The copy an operation reads: the system copy under Backup, the hoard copy
\* under Restore.
SourceContent(dir, on_system, in_hoard) ==
    IF dir = "Backup" THEN on_system ELSE in_hoard

ExecuteNoCopy(dir, op, on_system, in_hoard) ==
    [ok |-> TRUE, on_system |-> on_system, in_hoard |-> in_hoard]

\* The effect of executing one operation on the two copies of the file.
Execute(dir, op, on_system, in_hoard) ==
    CASE op \in {"Create", "Modify"} ->
            IF SourceContent(dir, on_system, in_hoard) = None
            THEN [ok |-> FALSE, on_system |-> on_system, in_hoard |-> in_hoard]
            ELSE IF dir = "Backup"
                 THEN [ok |-> TRUE, on_system |-> on_system, in_hoard |-> on_system]
                 ELSE [ok |-> TRUE, on_system |-> in_hoard, in_hoard |-> in_hoard]
      [] op = "Delete" ->
            IF dir = "Backup"
            THEN [ok |-> TRUE, on_system |-> on_system, in_hoard |-> None]
            ELSE [ok |-> TRUE, on_system |-> None, in_hoard |-> in_hoard]
      [] op = "Nothing" ->
            [ok |-> TRUE, on_system |-> on_system, in_hoard |-> in_hoard]

\* What the fold of Hoard::new records for the file.
RecordOf(system, dir, op, on_system, in_hoard, previous) ==
    CASE op = "Create" ->
            LogEntry(system, dir, "created",
                     SourceContent(dir, on_system, in_hoard), previous)
      [] op = "Modify" ->
            LogEntry(system, dir, "modified",
                     SourceContent(dir, on_system, in_hoard), previous)
      [] op = "Delete" -> LogEntry(system, dir, "deleted", None, previous)
      [] op = "Nothing" -> LogEntry(system, dir, "unmodified", on_system, previous)

\* What a new entry keeps of the entry it replaces.
PreviousOf(entry) == IF entry.category = "deleted" THEN "deleted" ELSE None

\* The log entries of the other systems, oldest first.
LogsOfOthers(log, system) ==
    LET Other(entry) == entry.system # system
    IN SelectSeq(log, Other)

InitDiff ==
    /\ system_content = [system \in Systems |-> None]
    /\ hoard_content = None
    /\ op_log = <<>>
    /\ IdleOp /\ IdleFiles /\ IdleClean /\ IdleUp /\ IdleRun /\ IdleGame

\* The user writes or removes the file on one system.
SetSystemContent ==
    /\ \E system \in Systems, content \in Contents \cup {None} :
          /\ content # system_content[system]
          /\ system_content' = [system_content EXCEPT ![system] = content]
    /\ UNCHANGED <<hoard_content, op_log>>
    /\ UNCHANGED <<opVars, filesVars, cleanVars, upVars, runVars, gameVars>>

\* Something other than a command writes or removes the hoard copy.
SetHoardContent ==
    /\ \E content \in Contents \cup {None} :
          /\ content # hoard_content
          /\ hoard_content' = content
    /\ UNCHANGED <<system_content, op_log>>
    /\ UNCHANGED <<opVars, filesVars, cleanVars, upVars, runVars, gameVars>>

\* One system runs a backup or a restore of the hoard, forced or not. The
\* command returns without effect when the file is not in the diff stream,
\* when it refuses the diff (ConflictDetected), and when the copy it must
\* read is missing (NotFound); otherwise it executes the operation and
\* writes its log.
RunCommand ==
    /\ \E system \in Systems, dir \in Directions, force \in BOOLEAN :
          LET on_system == system_content[system]
              diff == DiffOf(on_system, hoard_content, op_log, system)
              op == OperationOf(dir, diff)
              done == Execute(dir, op, on_system, hoard_content)
          IN IF \/ ~InStream(on_system, hoard_content, op_log, system)
                \/ ConflictDetected(diff, force)
                \/ ~done.ok
             THEN UNCHANGED <<system_content, hoard_content, op_log>>
             ELSE /\ system_content' = [system_content EXCEPT ![system] = done.on_system]
                  /\ hoard_content' = done.in_hoard
                  /\ op_log' = Append(LogsOfOthers(op_log, system),
                        RecordOf(system, dir, op, on_system, hoard_content,
                                 PreviousOf(LatestLocal(op_log, system))))
    /\ UNCHANGED <<opVars, filesVars, cleanVars, upVars, runVars, gameVars>>

NextDiff == SetSystemContent \/ SetHoardContent \/ RunCommand

SpecDiff == InitDiff /\ [][NextDiff]_vars

\* The diff the local system computes in the current state.
LocalDiff ==
    DiffOf(system_content[LocalSystem], hoard_content, op_log, LocalSystem)

\* The step is a backup that completed and wrote a log mentioning the file.
BackupCompleted ==
    /\ op_log' # op_log
    /\ LatestOverall(op_log').direction = "Backup"

\* After the step the diff on the system of the latest log is Unchanged and
\* the hoard copy equals the system copy (same content or both absent).
UpToDateAfter ==
    LET system == LatestOverall(op_log').system
    IN /\ DiffOf(system_content'[system], hoard_content', op_log', system).variant
              = "Unchanged"
       /\ hoard_content' = system_content'[system]

\* The diff the system of the latest log of the next state saw before the step.
DiffBefore ==
    LET system == LatestOverall(op_log').system
    IN DiffOf(system_content[system], hoard_content, op_log, system)

RunFiles == HoardFiles("Anonymous")

\* The operation executed for one diff.
Applied(dir, diff) == [file |-> diff.file, op |-> OperationOf(dir, diff)]

\* The operations executed for the first n diffs of a sequence.
RECURSIVE AppliedPrefix(_, _, _)
AppliedPrefix(dir, seq, n) ==
    IF n = 0 THEN <<>>
    ELSE Append(AppliedPrefix(dir, seq, n - 1), Applied(dir, seq[n]))

InitRun ==
    /\ run_command \in [direction : Directions, force : BOOLEAN]
    /\ run_diffs = <<>>
    /\ run_applied = <<>>
    /\ run_result = "Running"
    /\ run_journal = FALSE
    /\ IdleOp /\ IdleFiles /\ IdleClean /\ IdleUp /\ IdleDiff /\ IdleGame

\* The command takes the next diff of the stream: it stops on an error of
\* the stream, refuses a conflicting diff, and otherwise executes the
\* operation the translator gives for the diff.
RunStep ==
    /\ run_result = "Running"
    /\ \E diff \in DiffItems("Anonymous") :
          /\ \A i \in 1..Len(run_diffs) : run_diffs[i].file # diff.file
          /\ run_diffs' = Append(run_diffs, diff)
          /\ IF diff.variant = "Err"
             THEN run_result' = "Err" /\ UNCHANGED run_applied
             ELSE IF ConflictDetected(diff, run_command.force)
             THEN run_result' = "ConflictDetected" /\ UNCHANGED run_applied
             ELSE /\ run_applied' =
                        Append(run_applied, Applied(run_command.direction, diff))
                  /\ UNCHANGED run_result
    /\ UNCHANGED <<run_command, run_journal>>
    /\ UNCHANGED <<opVars, filesVars, cleanVars, upVars, diffVars, gameVars>>

\* The stream has ended: the command writes its operation log and returns.
RunFinish ==
    /\ run_result = "Running"
    /\ run_result' = "Ok"
    /\ run_journal' = TRUE
    /\ UNCHANGED <<run_command, run_diffs, run_applied>>
    /\ UNCHANGED <<opVars, filesVars, cleanVars, upVars, diffVars, gameVars>>

NextRun == RunStep \/ RunFinish

SpecRun == InitRun /\ [][NextRun]_vars

\* Every Mixed or Unknown diff the command has taken is the last one it
\* took; it made the command return ConflictDetected without a log, and the
\* operations of the diffs before it stay executed.
AbortsAtConflicts ==
    \A i \in 1..Len(run_diffs) :
        run_diffs[i].diff_source \in {"Mixed", "Unknown"} =>
            /\ i = Len(run_diffs)
            /\ run_result = "ConflictDetected"
            /\ ~run_journal
            /\ run_applied = AppliedPrefix(run_command.direction, run_diffs, i - 1)

(***************************************************************************)
(* C14                                                                     *)
(***************************************************************************)
\* C14 as stated: a backup or restore that meets a Mixed or Unknown diff
\* returns ConflictDetected at the first such diff and writes no log; the
\* files it copied before are not rolled back.
C14_ConflictAborts == AbortsAtConflicts

\* C14 as amended: the same for a command run without the force flag; a
\* forced command executes the translator's operation for such a diff and
\* goes on.
C14_UnforcedConflictAborts == ~run_command.force => AbortsAtConflicts

\* An unforced command copied one file and then refused the second.
C14_Witness ==
    /\ ~run_command.force
    /\ run_result = "ConflictDetected"
    /\ Len(run_diffs) = 2
    /\ Len(run_applied) = 1
    /\ run_applied[1].op \in {"Create", "Modify"}
    /\ ~run_journal

(***************************************************************************)
(* Claims on the diff source, seen from the local system                   *)
(***************************************************************************)
\* What the local system last recorded for the file.
LastLocal == LatestLocal(op_log, LocalSystem)

\* The most recent log that mentions the file.
LastLog == LatestOverall(op_log)

\* The most recent log is a backup of another system, later than the local
\* system's last log, and the file it recorded is not what the local system
\* last recorded: seen from the local system it created or modified the file.
RemoteBackupChanged ==
    /\ LastLog.some
    /\ LastLog.system # LocalSystem
    /\ LastLog.direction = "Backup"
    /\ LastLog.category \in {"created", "modified"}
    /\ LastLog.checksum # LastLocal.checksum

\* The most recent log is a backup of another system that deleted the file.
RemoteBackupDeleted ==
    /\ LastLog.some
    /\ LastLog.system # LocalSystem
    /\ LastLog.direction = "Backup"
    /\ LastLog.category = "deleted"

\* The hoard copy is what the most recent log recorded.
HoardAsLogged == hoard_content = LastLog.checksum

\* The local system copy is what the local system last recorded.
SystemAsLogged == system_content[LocalSystem] = LastLocal.checksum

(***************************************************************************)
(* C15                                                                     *)
(***************************************************************************)
\* C15: when the hoard copy is not what the most recent log of any system
\* recorded for it (or it exists with no log at all), the diff source is
\* Unknown, on every system and whatever the state of the system copy.
C15_OutOfBandIsUnknown ==
    ~HoardAsLogged =>
        \A system \in Systems :
            DiffOf(system_content[system], hoard_content, op_log, system).diff_source
                = "Unknown"

\* The hoard copy was edited out-of-band after a backup while the local
\* system copy was edited to another content.
C15_Witness ==
    /\ LastLog.some
    /\ LastLog.checksum # None
    /\ LastLocal.checksum # None
    /\ hoard_content \notin {None, LastLog.checksum}
    /\ system_content[LocalSystem] \notin {None, hoard_content, LastLocal.checksum}
    /\ LocalDiff.diff_source = "Unknown"

(***************************************************************************)
(* C16                                                                     *)
(***************************************************************************)
\* C16 as stated: a remote backup created or modified the file after the
\* local system's last operation (or the local system has no log) and the
\* local system copy differs from what the local system last recorded: the
\* diff source is Mixed.
C16_BothChangedIsMixed ==
    (RemoteBackupChanged /\ ~SystemAsLogged) => LocalDiff.diff_source = "Mixed"

\* C16 as amended: the same, when the hoard copy is what that remote backup
\* recorded and the local system copy exists; the diff source is Mixed both
\* when the two contents are equal and when they differ.
C16_BothChangedPresentIsMixed ==
    (/\ RemoteBackupChanged
     /\ HoardAsLogged
     /\ ~SystemAsLogged
     /\ system_content[LocalSystem] # None)
    => LocalDiff.diff_source = "Mixed"

\* The remote system modified the file, the local system edited its copy
\* to a third content.
C16_Witness ==
    /\ RemoteBackupChanged
    /\ HoardAsLogged
    /\ LastLocal.checksum # None
    /\ system_content[LocalSystem] \notin {None, LastLocal.checksum, hoard_content}
    /\ LocalDiff.diff_source = "Mixed"

(***************************************************************************)
(* C17                                                                     *)
(***************************************************************************)
\* C17: a remote backup created or modified the file after the local
\* system's last operation, the hoard copy matches that log and the local
\* system copy is what the local system last recorded: the diff source is
\* Remote.
C17_RemoteOnlyIsRemote ==
    (RemoteBackupChanged /\ HoardAsLogged /\ SystemAsLogged)
    => LocalDiff.diff_source = "Remote"

\* The local system backed the file up, the remote system modified it.
C17_Witness ==
    /\ RemoteBackupChanged
    /\ HoardAsLogged
    /\ SystemAsLogged
    /\ LastLocal.some
    /\ LastLocal.checksum # None
    /\ LocalDiff = [variant |-> "TextModified", diff_source |-> "Remote",
                    file |-> TheFile]

(***************************************************************************)
(* C18                                                                     *)
(***************************************************************************)
\* C18: a file created or modified on the local system after its most
\* recent backup or restore, with the hoard copy matching the most recent
\* log and no later remote log of the file, has diff source Local; with no
\* log at all, a file present only on the system is Created/Local.
C18_LocalOnlyIsLocal ==
    /\ (/\ LastLog.some
        /\ LastLog.system = LocalSystem
        /\ HoardAsLogged
        /\ system_content[LocalSystem] \notin {None, LastLocal.checksum})
       => /\ LocalDiff.diff_source = "Local"
          /\ LocalDiff.variant \in {"Created", "Recreated", "TextModified"}
    /\ (/\ op_log = <<>>
        /\ hoard_content = None
        /\ system_content[LocalSystem] # None)
       => LocalDiff = [variant |-> "Created", diff_source |-> "Local",
                       file |-> TheFile]

\* The local system restored a file another system had backed up, and then
\* edited it.
C18_Witness ==
    /\ LastLog.system = LocalSystem
    /\ LastLog.direction = "Restore"
    /\ LastLog.checksum # None
    /\ HoardAsLogged
    /\ system_content[LocalSystem] \notin {None, LastLocal.checksum}
    /\ LocalDiff = [variant |-> "TextModified", diff_source |-> "Local",
                    file |-> TheFile]

(***************************************************************************)
(* C19                                                                     *)
(***************************************************************************)
\* C19: for a file the local system last recorded with a content, whose
\* hoard copy is what the most recent log recorded: system copy absent and
\* hoard copy present is Deleted/Local, also when a remote backup modified
\* the hoard copy since; hoard copy absent by a remote backup that logged
\* the deletion and system copy present is Deleted/Remote, also when the
\* system copy was modified meanwhile; both absent is Deleted/Mixed.
C19_DeletionSide ==
    (LastLocal.checksum # None /\ HoardAsLogged) =>
        /\ (system_content[LocalSystem] = None /\ hoard_content # None)
           => LocalDiff = [variant |-> "Deleted", diff_source |-> "Local",
                           file |-> TheFile]
        /\ (RemoteBackupDeleted /\ system_content[LocalSystem] # None)
           => LocalDiff = [variant |-> "Deleted", diff_source |-> "Remote",
                           file |-> TheFile]
        /\ (RemoteBackupDeleted /\ system_content[LocalSystem] = None)
           => LocalDiff = [variant |-> "Deleted", diff_source |-> "Mixed",
                           file |-> TheFile]

\* The local system deleted its copy after a remote backup modified the
\* hoard copy.
C19_Witness ==
    /\ LastLocal.checksum # None
    /\ RemoteBackupChanged
    /\ HoardAsLogged
    /\ system_content[LocalSystem] = None
    /\ LocalDiff = [variant |-> "Deleted", diff_source |-> "Local",
                    file |-> TheFile]

(***************************************************************************)
(* C20                                                                     *)
(***************************************************************************)
\* C20: the variant is the net change seen from the local system. A file a
\* remote system deleted and then recreated with new content in two
\* backups, while the local system holds the copy it last recorded, is
\* modified remotely; a diff of source Remote is Created or Recreated only
\* when the local system copy is absent.
C20_NetChange ==
    /\ (/\ RemoteBackupChanged
        /\ LastLog.category = "created"
        /\ LastLog.previous = "deleted"
        /\ HoardAsLogged
        /\ SystemAsLogged
        /\ system_content[LocalSystem] # None)
       => LocalDiff = [variant |-> "TextModified", diff_source |-> "Remote",
                       file |-> TheFile]
    /\ (/\ LocalDiff.diff_source = "Remote"
        /\ LocalDiff.variant \in {"Created", "Recreated"})
       => system_content[LocalSystem] = None

\* The remote system deleted the file and recreated it with new content
\* while the local system kept the copy it had backed up.
C20_Witness ==
    /\ LastLocal.direction = "Backup"
    /\ RemoteBackupChanged
    /\ LastLog.category = "created"
    /\ LastLog.previous = "deleted"
    /\ HoardAsLogged
    /\ SystemAsLogged
    /\ system_content[LocalSystem] # None
    /\ LocalDiff.variant = "TextModified"

(***************************************************************************)
(* C21                                                                     *)
(***************************************************************************)
\* Directories the enumeration has entered or has queued for entering.
EnteredOrQueued ==
    {Node(root_paths[i]) : i \in 1..Len(root_paths)}
        \cup (IF current_root.some THEN {Node(current_root)} ELSE {})

\* C21: a path matched by an ignore glob of its pile, or lying beneath a
\* matched directory, is never yielded, whatever the two trees hold; a
\* matched directory is never queued or entered.
C21_IgnoredNeverYielded ==
    /\ \A i \in 1..Len(yielded) :
          yielded[i].kind = "Ok" => ~Ignored(yielded[i].file)
    /\ \A n \in EnteredOrQueued : ~Ignored(n)

\* The stream ended, yielding a file, while an ignored directory held a file
\* on the system side and on the hoard side.
C21_Witness ==
    /\ Finished
    /\ YieldedFiles # {}
    /\ <<"sub">> \in ignore
    /\ \E n \in system_tree \cap hoard_tree :
          ~IsDirNode(n) /\ Len(n[2]) >= 2 /\ Ignored(n)

(***************************************************************************)
(* The status command, for a hoard of one file (tests/hoard_status.rs)     *)
(***************************************************************************)
StatusLines ==
    {"up to date", "modified locally", "modified remotely", "mixed changes",
     "unexpected changes"}

StatusLineUnknownAsMixed(source) ==
    CASE source = "Local" -> "modified locally"
      [] source = "Remote" -> "modified remotely"
      [] source \in {"Mixed", "Unknown"} -> "mixed changes"
      [] OTHER -> "up to date"

\* The summary the status command prints for a hoard whose diffs have the
\* given source (None: no diff).
StatusLine(source) ==
    CASE source = "Local" -> "modified locally"
      [] source = "Remote" -> "modified remotely"
      [] source = "Mixed" -> "mixed changes"
      [] source = "Unknown" -> "unexpected changes"
      [] OTHER -> "up to date"

\* The line of the status command for the hoard, run on the given system:
\* computed from the hoard's own file copies and logs only.
HoardStatus(system) ==
    StatusLine(DiffSourceOf(system_content[system], hoard_content, op_log, system))

DirEntries ==
    [system : {LocalSystem}, hoard : Hoards, timestamp : NameStamps,
     direction : Directions, form : {"log"}]
    \cup [system : {NotUuidDir}, hoard : Hoards, timestamp : {9, 10},
          direction : Directions, form : {"log"}]
    \cup [system : {LocalSystem}, hoard : Hoards, timestamp : {9, 60000000},
          direction : {"Backup"}, form : {"iso", "no_subsecond", "directory"}]
    \cup [system : {LocalSystem}, hoard : Hoards, timestamp : {9},
          direction : {"Backup"}, form : {"last_paths"}]
    \cup [system : {LocalSystem}, hoard : {LastPathsFile}, timestamp : {9},
          direction : {"Backup"}, form : {"system_file"}]
    \cup [system : {UuidNamedFile}, hoard : {None}, timestamp : {9},
          direction : {"Backup"}, form : {"root_file"}]

\* No two entries of one directory have the same name.
DistinctNames(files) ==
    \A a, b \in files :
        (a # b /\ a.system = b.system /\ a.hoard = b.hoard) => FileName(a) # FileName(b)

\* The sets of at most k entries.
RECURSIVE EntrySets(_)
EntrySets(k) ==
    IF k = 0 THEN {{}}
    ELSE LET smaller == EntrySets(k - 1)
         IN smaller \cup {files \cup {entry} : files \in smaller, entry \in DirEntries}

InitDir ==
    /\ history \in {files \in EntrySets(MaxEntries) : DistinctNames(files)}
    /\ clock = 1
    /\ cleanup = NoCleanup
    /\ IdleOp /\ IdleFiles /\ IdleUp /\ IdleDiff /\ IdleRun /\ IdleGame

NextDir == CleanupOperations

SpecDir == InitDir /\ [][NextDir]_vars

\* The files cleanup_operations put on its deletion list.
Listed == SeqRange(cleanup.list)

(***************************************************************************)
(* C23                                                                     *)
(***************************************************************************)
\* C23: for any two log files named by TIME_FORMAT, the byte order of the
\* names is the order of their UTC times; so the last file of the sorted
\* list of a directory is its chronologically latest log.
C23_NameOrderIsTimeOrder ==
    /\ \A a, b \in history :
          (a.form = "log" /\ b.form = "log") =>
              (NameLess(FileName(a), FileName(b)) <=> a.timestamp < b.timestamp)
    /\ cleanup.ran =>
          \A system \in Systems, hoard \in Hoards :
              LET files == SortFiles(ReadLogs(cleanup.pre, system, hoard))
              IN files # <<>> =>
                    \A l \in SeqRange(files) : l.timestamp <= files[Len(files)].timestamp

\* cleanup_operations ran on a directory with a log of the last microsecond
\* of 2023 and a log of the first microsecond of 2024, and kept the latter.
C23_Witness ==
    /\ cleanup.ran /\ cleanup.ok
    /\ \E a, b \in cleanup.pre :
          /\ a.form = "log" /\ b.form = "log"
          /\ a.system = LocalSystem /\ b.system = LocalSystem
          /\ a.timestamp = 59999999 /\ b.timestamp = 60000000
          /\ TimeFields(a.timestamp).year < TimeFields(b.timestamp).year
          /\ a \notin history /\ b \in history

(***************************************************************************)
(* C24                                                                     *)
(***************************************************************************)
\* C24: file_is_log accepts the regular files named by TIME_FORMAT plus
\* ".log" and rejects the ISO-named log, last_paths.json and the name
\* without subsecond; cleanup_operations neither lists nor deletes a file
\* whose name does not match, and retains the logs as if it were absent.
C24_OnlyLogsConsidered ==
    /\ \A file \in history :
          /\ file.form = "log" => FileIsLog(file)
          /\ file.form \in {"iso", "last_paths", "no_subsecond"} => ~FileIsLog(file)
    /\ cleanup.ran =>
          /\ \A file \in cleanup.pre :
                ~LogFileRegexIsMatch(FileName(file)) => (file \in history /\ file \notin Listed)
          /\ cleanup.ok =>
                \A system \in Systems, hoard \in Hoards :
                    {l \in LogsIn(history, system, hoard) : l.form = "log"}
                        = Retained({l \in LogsIn(cleanup.pre, system, hoard) : l.form = "log"})

\* cleanup_operations ran on a directory holding two logs and a later file
\* named without subsecond: the earlier log is gone, the later log and the
\* other file are still there.
C24_Witness ==
    /\ cleanup.ran /\ cleanup.ok
    /\ \E a, b, c \in cleanup.pre :
          /\ a.form = "log" /\ b.form = "log" /\ c.form = "no_subsecond"
          /\ a.system = LocalSystem /\ b.system = LocalSystem
          /\ a.timestamp < b.timestamp /\ b.timestamp < c.timestamp
          /\ a \notin history /\ b \in history /\ c \in history

(***************************************************************************)
(* C26                                                                     *)
(***************************************************************************)
\* C26: cleanup_operations lists and deletes nothing of an entry of the
\* history root that is not a directory with a UUID for a name.
C26_NonUuidUntouched ==
    cleanup.ran =>
        \A file \in cleanup.pre :
            (~UuidParses(file.system) \/ ~RootEntryIsDir(file.system))
                => (file \in history /\ file \notin Listed)

\* cleanup_operations ran while a directory without a UUID name held two
\* logs and the history root held a regular file with a UUID name: all
\* three are still there.
C26_Witness ==
    /\ cleanup.ran /\ cleanup.ok
    /\ \E a, b, c \in history :
          /\ a.system = NotUuidDir /\ b.system = NotUuidDir
          /\ a.form = "log" /\ b.form = "log"
          /\ a.timestamp < b.timestamp
          /\ c.form = "root_file"
          /\ {a, b, c} \subseteq cleanup.pre

(***************************************************************************)
(* C25                                                                     *)
(***************************************************************************)
OtherDirection(dir) == IF dir = "Backup" THEN "Restore" ELSE "Backup"

\* The source on the other side; Unknown counts as Remote.
OtherSide(source) == IF source = "Local" THEN "Remote" ELSE "Local"

Flipped(op) ==
    CASE op = "Create" -> "Delete"
      [] op = "Delete" -> "Create"
      [] OTHER -> op

\* C25: the operation emitted for an Unknown diff is the one for the same
\* diff with source Remote; for a Created, Recreated or Deleted diff whose
\* source is not Mixed the operation is Create or Delete, the other
\* direction gives the other of the two, and so does the source of the other
\* side; a Backup creates for a local creation and deletes for a creation
\* that is remote or out-of-band, a Restore the reverse.
C25_TranslatorSymmetry ==
    \A i \in 1..Len(diffs) :
        LET diff == diffs[i] IN
        /\ (diff.variant # "Err" /\ diff.diff_source = "Unknown") =>
               ops[i].op = OperationOf(direction, [diff EXCEPT !.diff_source = "Remote"])
        /\ (diff.variant \in {"Created", "Recreated", "Deleted"} /\ diff.diff_source # "Mixed") =>
               /\ ops[i].op \in {"Create", "Delete"}
               /\ OperationOf(OtherDirection(direction), diff) = Flipped(ops[i].op)
               /\ OperationOf(direction,
                              [diff EXCEPT !.diff_source = OtherSide(diff.diff_source)])
                     = Flipped(ops[i].op)
        /\ (diff.variant \in {"Created", "Recreated"} /\ diff.diff_source # "Mixed") =>
               (ops[i].op = "Create"
                   <=> (direction = "Backup" <=> diff.diff_source = "Local"))

\* A backup met a file created out-of-band in the hoard and emitted Delete,
\* and met a file created locally and emitted Create.
C25_Witness ==
    /\ direction = "Backup"
    /\ \E i, j \in 1..Len(diffs) :
          /\ diffs[i].variant = "Created" /\ diffs[i].diff_source = "Unknown"
          /\ ops[i].op = "Delete"
          /\ diffs[j].variant = "Created" /\ diffs[j].diff_source = "Local"
          /\ ops[j].op = "Create"

(***************************************************************************)
(* AllFilesIter when a directory cannot be read                            *)
(***************************************************************************)
\* The directories of a side.
DirsOf(side, shape) ==
    {<<side, n>> : n \in {m \in Nodes(shape) : IsDirNode(m)}}

\* As InitFiles, with one directory whose read_dir fails on one side with an
\* error other than NotFound, and no ignore glob.
InitFilesErr ==
    /\ \E shape \in {"Anonymous", "Named"} :
          /\ system_tree \in Trees(shape)
          /\ hoard_tree \in Trees(shape)
          /\ root_paths = NewRootPaths(shape, PileNames(shape), {})
          /\ pile_paths = PileNames(shape)
          /\ \E failing \in DirsOf("system", shape) \cup DirsOf("hoard", shape) :
                /\ failing[2] \in (IF failing[1] = "system" THEN system_tree ELSE hoard_tree)
                /\ read_errors = {failing}
    /\ ignore = {}
    /\ sys_order \in Orders
    /\ hoard_order \in Orders
    /\ system_entries = NoEntries
    /\ hoard_entries = NoEntries
    /\ current_root = NoRoot
    /\ yielded = <<>>
    /\ IdleOp /\ IdleClean /\ IdleUp /\ IdleDiff /\ IdleRun /\ IdleGame

SpecFilesErr == InitFilesErr /\ [][NextFiles]_vars

\* A path lies in or beneath a directory whose read_dir fails on a side.
BelowFailure(n) ==
    \E k \in 0..(Len(n[2]) - 1), side \in {"system", "hoard"} :
        <<side, <<n[1], SubSeq(n[2], 1, k)>>>> \in read_errors

(***************************************************************************)
(* C27                                                                     *)
(***************************************************************************)
\* C27: when read_dir of a directory fails on a side with an error other
\* than NotFound, next yields the error as an item and no later call
\* panics; when the stream ends, every file outside the failing directory
\* has been yielded.
C27_ErrorsDoNotEndStream ==
    /\ \A i \in 1..Len(yielded) : yielded[i].kind # "Panic"
    /\ Finished => \A n \in ExpectedFiles : ~BelowFailure(n) => n \in YieldedFiles

(***************************************************************************)
(* AllFilesIter under a consumer that keeps calling next                   *)
(***************************************************************************)
\* The consumer calls next again as long as a call is possible.
SpecFilesLive == InitFiles /\ [][NextFiles]_vars /\ WF_vars(AllFilesNext)

\* A further call of next returns None and leaves the iterator as it is.
NextIsNone ==
    LET r == AllFilesIterNext(IterState)
    IN r.kind = "None" /\ r.st = IterState

(***************************************************************************)
(* C28                                                                     *)
(***************************************************************************)
\* C28: for all finite trees, repeated calls of next reach a call that
\* returns None, and from then on every call returns None: the state None
\* was returned from is one in which a further call returns None and
\* changes nothing.
C28_StreamEndsForGood ==
    /\ <>[]Finished
    /\ [](Finished => NextIsNone)

\* The stream yielded files of three levels of directories, returned None,
\* and returned None again on the next call.
C28_Witness ==
    /\ Exhausted
    /\ \E n \in YieldedFiles : Len(n[2]) = 3
    /\ \E n \in YieldedFiles : Len(n[2]) = 1

(***************************************************************************)
(* AllFilesIter over a pile with sibling directories                       *)
(***************************************************************************)
\* Relative paths of a pile with two directories side by side, one of them
\* with a directory of its own.
WideUniverse ==
    {<<>>, <<"sub">>, <<"sub", "b.txt">>, <<"sub", "deep">>, <<"sub", "deep", "c.txt">>,
     <<"top">>, <<"top", "d.txt">>}

WideTrees ==
    {t \in SUBSET ({None} \X WideUniverse) :
        \A n \in t : n[2] # <<>> => <<n[1], Parent(n[2])>> \in t}

\* As InitFiles, for the anonymous pile over the wider universe.
InitFilesWide ==
    /\ system_tree \in WideTrees
    /\ hoard_tree \in WideTrees
    /\ ignore \in {{}, {<<"sub", "deep">>}}
    /\ root_paths = NewRootPaths("Anonymous", PileNames("Anonymous"), ignore)
    /\ pile_paths = PileNames("Anonymous")
    /\ read_errors = {}
    /\ sys_order \in Orders
    /\ hoard_order \in Orders
    /\ system_entries = NoEntries
    /\ hoard_entries = NoEntries
    /\ current_root = NoRoot
    /\ yielded = <<>>
    /\ IdleOp /\ IdleClean /\ IdleUp /\ IdleDiff /\ IdleRun /\ IdleGame

SpecFilesWide == InitFilesWide /\ [][NextFiles]_vars

\* The file is in the subtree of the directory.
Beneath(n, dir) ==
    /\ n[1] = dir[1]
    /\ Len(n[2]) > Len(dir[2])
    /\ SubSeq(n[2], 1, Len(dir[2])) = dir[2]

\* The calls of next that yielded a file of the subtree of the directory.
YieldsBeneath(dir) ==
    {i \in 1..Len(yielded) : yielded[i].kind = "Ok" /\ Beneath(yielded[i].file, dir)}

\* The file was yielded by a call before call j.
YieldedBefore(n, j) ==
    \E m \in 1..(j - 1) : yielded[m].kind = "Ok" /\ yielded[m].file = n

\* The directories of either side.
UnionDirs == {n \in system_tree \cup hoard_tree : IsDirNode(n)}

(***************************************************************************)
(* C29                                                                     *)
(***************************************************************************)
\* C29: the files come in depth-first pre-order over the union tree: when
\* the first file of a directory's subtree is yielded before the first file
\* of the subtree of a sibling directory, every file of the former subtree
\* is yielded before that; and the files a directory holds itself are
\* yielded before any file of its subdirectories.
C29_DepthFirstPreOrder ==
    /\ \A a, b \in UnionDirs :
          (/\ a # b /\ a[1] = b[1] /\ a[2] # <<>> /\ Len(a[2]) = Len(b[2])
           /\ Parent(a[2]) = Parent(b[2])
           /\ YieldsBeneath(a) # {} /\ YieldsBeneath(b) # {}
           /\ \E i \in YieldsBeneath(a) : \A j \in YieldsBeneath(b) : i < j)
          => \A n \in ExpectedFiles :
                Beneath(n, a) => \A j \in YieldsBeneath(b) : YieldedBefore(n, j)
    /\ \A a, b \in UnionDirs :
          (b[1] = a[1] /\ b[2] # <<>> /\ Parent(b[2]) = a[2])
          => \A n \in ExpectedFiles :
                (n[1] = a[1] /\ n[2] # <<>> /\ Parent(n[2]) = a[2])
                    => \A j \in YieldsBeneath(b) : YieldedBefore(n, j)

\* The stream ended; the files of sub, two levels deep and on both sides,
\* were all yielded before the first file of top, or the other way round.
C29_Witness ==
    /\ Finished
    /\ {<<None, <<"sub", "b.txt">>>>, <<None, <<"sub", "deep", "c.txt">>>>,
        <<None, <<"top", "d.txt">>>>} \subseteq (system_tree \cap hoard_tree) \cap YieldedFiles
    /\ \E i \in YieldsBeneath(<<None, <<"sub">>>>) :
          \A j \in YieldsBeneath(<<None, <<"top">>>>) : i < j

(***************************************************************************)
(* C30                                                                     *)
(***************************************************************************)
\* Two records are the same file of the history root.
SamePath(l, m) ==
    /\ l.system = m.system /\ l.hoard = m.hoard
    /\ l.form = m.form /\ l.timestamp = m.timestamp

\* The step is a run of cleanup_operations.
CleanupStep == cleanup'.ran /\ cleanup'.pre = history

CleanupAgain == cleanup.ran /\ CleanupStep /\ cleanup'.ok

\* C31: a successful run of cleanup_operations right after a successful run
\* lists and deletes nothing and returns 0; a successful run right after a
\* run that failed part-way leaves in every directory the logs an
\* uninterrupted run would have left of what the failed run started from.
C31_CleanupRestartable ==
    [][CleanupAgain =>
          /\ cleanup.ok =>
                (history' = history /\ cleanup'.list = <<>> /\ cleanup'.count = 0)
          /\ \A system \in Systems, hoard \in Hoards :
                LogsIn(history', system, hoard) = Retained(LogsIn(cleanup.pre, system, hoard))]_vars

\* A run of cleanup_operations that started from what a failed run had left
\* (some of its list removed, some not) succeeded and removed the rest.
C31_Witness ==
    /\ cleanup.ran /\ cleanup.ok /\ cleanup.count >= 1
    /\ \E l \in cleanup.pre : l.timestamp = 1
    /\ Cardinality(cleanup.pre) < clock - 1
    /\ \A system \in Systems, hoard \in Hoards :
          LogsIn(history, system, hoard) = Retained(LogsIn(history, system, hoard))
    /\ \E system \in Systems, hoard \in Hoards :
          Cardinality(LogsIn(history, system, hoard)) = 2

(***************************************************************************)
(* C32                                                                     *)
(***************************************************************************)
\* The paths of the unnamed pile that the i-th log deletes: those of the
\* preceding v1 log that the i-th v1 log lacks.
DeletedByLog(i) ==
    IF i = 1 THEN {}
    ELSE {k[2] : k \in {x \in DOMAIN v1_logs[i - 1].files : x[1] = None}
                         \ DOMAIN v1_logs[i].files}

\* C32: the v2 log from_v1 makes of a v1 log has the v1 log's shape,
\* timestamp, hoard name and direction (is_backup true is Backup, false is
\* Restore); from an anonymous v1 log with an empty file map that deletes
\* no path of the unnamed pile it is Anonymous with deleted = {""} and
\* created, modified, unmodified empty.
C32_FromV1Preserves ==
    /\ Len(v2_logs) = Len(v1_logs)
    /\ \A i \in 1..Len(v1_logs) :
          LET old_v1 == v1_logs[i]
              new_v2 == v2_logs[i]
          IN /\ new_v2.files.shape = old_v1.hoard
             /\ new_v2.timestamp = old_v1.timestamp
             /\ new_v2.hoard = old_v1.hoard_name
             /\ new_v2.direction = (IF old_v1.is_backup THEN "Backup" ELSE "Restore")
             /\ (/\ old_v1.hoard = "Anonymous"
                 /\ DOMAIN old_v1.files = {}
                 /\ DeletedByLog(i) = {})
                => /\ new_v2.files.shape = "Anonymous"
                   /\ DOMAIN new_v2.files.piles = {None}
                   /\ new_v2.files.piles[None] =
                         [created |-> EmptyMap, modified |-> EmptyMap,
                          unmodified |-> EmptyMap, deleted |-> {""}]

\* A restore log of an anonymous hoard with an empty file map was
\* converted, after a log that had an empty file map too.
C32_Witness ==
    /\ Len(v2_logs) >= 2
    /\ v1_shape = "Anonymous"
    /\ \E i \in 2..Len(v1_logs) :
          /\ ~v1_logs[i].is_backup
          /\ DOMAIN v1_logs[i].files = {}
          /\ DOMAIN v1_logs[i - 1].files = {}
          /\ v2_logs[i].direction = "Restore"
          /\ v2_logs[i].files.piles[None].deleted = {""}

(***************************************************************************)
(* C33                                                                     *)
(***************************************************************************)
\* The file the fold of Hoard::new has to read for the i-th operation is
\* there.
RequiredPresent(i) ==
    CASE ops[i].op \in {"Create", "Modify"} ->
            IF direction = "Backup" THEN on_disk[ops[i].file].system
            ELSE on_disk[ops[i].file].hoard
      [] ops[i].op = "Nothing" -> on_disk[ops[i].file].system
      [] OTHER -> TRUE

\* C33: while the fold of Hoard::new is Ok, every Create and Modify of the
\* stream is recorded under created / modified with the checksum of the
\* system file under Backup and of the hoard file under Restore, every
\* Nothing under unmodified with the system file's checksum, every Delete
\* under deleted, which holds no checksum; if the file an operation needs
\* is absent the fold is an error, NotFound unless the stream failed
\* earlier, and Hoard::new returns no log.
C33_ChecksumOfSourceSide ==
    /\ inner.ok =>
          \A i \in 1..Len(ops) :
              LET file == ops[i].file
                  pile == inner.map[PileKey(file[1])]
                  source == IF direction = "Backup" THEN <<"system_checksum", file>>
                            ELSE <<"hoard_checksum", file>>
              IN /\ PileKey(file[1]) \in DOMAIN inner.map
                 /\ ops[i].op = "Create" =>
                       (file[2] \in DOMAIN pile.created /\ pile.created[file[2]] = source)
                 /\ ops[i].op = "Modify" =>
                       (file[2] \in DOMAIN pile.modified /\ pile.modified[file[2]] = source)
                 /\ ops[i].op = "Nothing" =>
                       /\ file[2] \in DOMAIN pile.unmodified
                       /\ pile.unmodified[file[2]] = <<"system_checksum", file>>
                 /\ ops[i].op = "Delete" => file[2] \in pile.deleted
    /\ \A i \in 1..Len(ops) :
          (ops[i].op # "Err" /\ ~RequiredPresent(i)) =>
              /\ ~inner.ok
              /\ (\A j \in 1..(i - 1) : ops[j].op # "Err") => inner.error = "NotFound"
              /\ hoard_new # NoHoard => (hoard_new.shape = "Err" /\ NewLogs = {})

\* A backup met a Deleted/Unknown diff of a file that is on neither side:
\* the translator made it a Create and Hoard::new returned NotFound.
C33_Witness ==
    /\ direction = "Backup"
    /\ hoard_new.shape = "Err"
    /\ inner.error = "NotFound"
    /\ \E i \in 1..Len(diffs) :
          /\ diffs[i].variant = "Deleted" /\ diffs[i].diff_source = "Unknown"
          /\ ops[i].op = "Create"
          /\ ~on_disk[diffs[i].file].system /\ ~on_disk[diffs[i].file].hoard

(***************************************************************************)
(* C34                                                                     *)
(***************************************************************************)
\* Hoard::get_pile
GetPile(hoard, name) ==
    IF name = None /\ hoard.shape = "Anonymous"
    THEN [some |-> TRUE, pile |-> hoard.piles[""]]
    ELSE IF name # None /\ hoard.shape = "Named" /\ name \in DOMAIN hoard.piles
    THEN [some |-> TRUE, pile |-> hoard.piles[name]]
    ELSE [some |-> FALSE, pile |-> DefaultPile]

\* C34: the log Hoard::new returns has the shape of the configured hoard,
\* Anonymous for an anonymous hoard and Named for a named one, the empty
\* stream included, so get_pile(None) finds the pile of an anonymous
\* hoard's log.
C34_ShapeOfConfiguredHoard ==
    hoard_new.shape \in {"Anonymous", "Named"} =>
        /\ hoard_new.shape = config_hoard
        /\ config_hoard = "Anonymous" => GetPile(hoard_new, None).some

(***************************************************************************)
(* C35                                                                     *)
(***************************************************************************)
\* The paths of a pile in the v1 log before the i-th that the i-th lacks.
GoneFromPile(i, name) ==
    IF i = 1 THEN {}
    ELSE {k[2] : k \in {x \in DOMAIN v1_logs[i - 1].files : x[1] = name}
                         \ DOMAIN v1_logs[i].files}

\* The pile names of the i-th log pair.
PileNamesAt(i) ==
    DOMAIN v2_logs[i].files.piles
        \cup {k[1] : k \in DOMAIN v1_logs[i].files}
        \cup (IF i = 1 THEN {} ELSE {k[1] : k \in DOMAIN v1_logs[i - 1].files})

\* The i-th v1 log is anonymous, holds no file and follows no file of the
\* unnamed pile: from_v1 gives it the single deleted entry "".
EmptyPresence(i) ==
    /\ v1_logs[i].hoard = "Anonymous"
    /\ DOMAIN v1_logs[i].files = {}
    /\ GoneFromPile(i, None) = {}

\* C35 as stated: in every v2 log of the fold each pile's deleted set is
\* the paths of the pile in the preceding v1 log minus those in the current
\* one, so the first log deletes nothing.
C35_DeletedOnlyIfPreceded ==
    \A i \in 1..Len(v2_logs) : \A name \in PileNamesAt(i) :
        V2Pile(v2_logs[i], name).deleted = GoneFromPile(i, name)

\* C35, amended: the same, except for an anonymous v1 log with an empty
\* file map that follows no file of the unnamed pile, whose v2 log has the
\* single deleted entry "" (step 4 of the upgrade).
C35_DeletedIsDifference ==
    \A i \in 1..Len(v2_logs) : \A name \in PileNamesAt(i) :
        V2Pile(v2_logs[i], name).deleted =
            IF EmptyPresence(i) THEN {""} ELSE GoneFromPile(i, name)

\* A log deleted one path of a pile and kept another that an earlier log
\* had deleted and the log before it brought back.
C35_Witness ==
    /\ Len(v2_logs) >= 3
    /\ \E k1, k2 \in DOMAIN v1_logs[1].files :
          /\ k1 # k2 /\ k1[1] = k2[1]
          /\ k1 \notin DOMAIN v1_logs[2].files /\ k2 \in DOMAIN v1_logs[2].files
          /\ k1 \in DOMAIN v1_logs[3].files /\ k2 \notin DOMAIN v1_logs[3].files
          /\ V2Pile(v2_logs[2], k1[1]).deleted = {k1[2]}
          /\ V2Pile(v2_logs[3], k1[1]).deleted = {k2[2]}

C37_OneItemPerDiff ==
    /\ Len(ops) = Len(diffs)
    /\ \A i \in 1..Len(diffs) :
          IF diffs[i].variant = "Err"
          THEN ops[i].op = "Err"
          ELSE ops[i].op \in ItemOperations /\ ops[i].file = diffs[i].file

\* The diff stream gave an error and then a diff, and ended: OperationIter
\* gave an error and then the operation of that diff.
C37_Witness ==
    /\ Len(diffs) = 2
    /\ diffs[1].variant = "Err" /\ diffs[2].variant = "Created"
    /\ ops[1].op = "Err" /\ ops[2].op \in {"Create", "Delete"}
    /\ ops[2].file = diffs[2].file
    /\ hoard_new # NoHoard

(***************************************************************************)
(* C38                                                                     *)
(***************************************************************************)
\* Hoards some of whose piles have no path: such a pile has no system side,
\* while the hoard may still hold what an earlier backup put there.
InitFilesPaths ==
    /\ \E shape \in {"Anonymous", "Named"} :
          /\ pile_paths \in SUBSET PileNames(shape)
          /\ system_tree \in {t \in Trees(shape) : \A n \in t : n[1] \in pile_paths}
          /\ hoard_tree \in Trees(shape)
          /\ ignore \in {{}, {<<"sub">>}}
          /\ root_paths = NewRootPaths(shape, pile_paths, ignore)
    /\ read_errors = {}
    /\ sys_order \in Orders
    /\ hoard_order = sys_order
    /\ system_entries = NoEntries
    /\ hoard_entries = NoEntries
    /\ current_root = NoRoot
    /\ yielded = <<>>
    /\ IdleOp /\ IdleClean /\ IdleUp /\ IdleDiff /\ IdleRun /\ IdleGame

SpecFilesPaths == InitFilesPaths /\ [][NextFiles]_vars

\* The calls of next() that yielded a file of the pile.
YieldsOfPile(pile_name) ==
    {i \in 1..Len(yielded) : yielded[i].kind = "Ok" /\ yielded[i].file[1] = pile_name}

\* The root of the pile exists on a side.
RootExists(pile_name) == <<pile_name, <<>>>> \in system_tree \cup hoard_tree

\* C38: AllFilesIter yields nothing of a pile whose path is unset and
\* nothing of a pile whose root exists on neither side; of a pile whose root
\* is a single file, on the system, in the hoard or on both, it yields the
\* empty relative path, once by the end of the stream, and nothing else.
C38_RootCases ==
    \A pile_name \in {None, "dir", FilePile} :
        /\ pile_name \notin pile_paths => YieldsOfPile(pile_name) = {}
        /\ ~RootExists(pile_name) => YieldsOfPile(pile_name) = {}
        /\ (pile_name = FilePile /\ pile_name \in pile_paths /\ RootExists(pile_name)) =>
              /\ \A i \in YieldsOfPile(pile_name) : yielded[i].file = <<pile_name, <<>>>>
              /\ Cardinality(YieldsOfPile(pile_name)) <= 1
              /\ Finished => Cardinality(YieldsOfPile(pile_name)) = 1

\* The stream of a named hoard ended: the directory pile has no path and
\* files in the hoard, the file pile's root is a file that is only in the
\* hoard, and the one file yielded is that root.
C38_Witness ==
    /\ Finished
    /\ pile_paths = {FilePile}
    /\ <<"dir", <<"a.txt">>>> \in hoard_tree
    /\ <<FilePile, <<>>>> \in hoard_tree \ system_tree
    /\ YieldedFiles = {<<FilePile, <<>>>>}
    /\ Cardinality(YieldsOfPile(FilePile)) = 1

(***************************************************************************)
(* AddGame::add_game and RemoveGame::remove_game                           *)
(***************************************************************************)
GameNames == {"celeste", "hades"}

GameTypes == {"steam", "native"}

SavePaths == {"/saves/old", "/saves/new"}

\* The games file with a list in it.
Readable(list) == [readable |-> TRUE, list |-> list]

\* The games file after a write that stopped part-way.
Unreadable == [readable |-> FALSE, list |-> EmptyMap]

\* games.remove(&self.game).unwrap_or_default()
RemoveOrDefault(games, game) == IF game \in DOMAIN games THEN games[game] ELSE EmptyMap

\* HashMap::remove
MapRemove(m, k) == [x \in (DOMAIN m) \ {k} |-> m[x]]

\* What save_games_file may leave when it fails: toml::to_string_pretty or
\* File::create fails and the file is as before, File::create has truncated
\* the file and write_all wrote nothing, or write_all wrote part of it.
FailedSaves(file) == {file, Readable(EmptyMap), Unreadable}

\* The record of a call.
GameCall(cmd, game, ty, path, force, result, carried) ==
    [cmd |-> cmd, game |-> game, ty |-> ty, path |-> path, force |-> force,
     pre |-> games_file, result |-> result, carried |-> carried]

AddGameAlwaysForce(game, ty, path, force, read_ok, save_ok) ==
    IF ~games_file.readable \/ ~read_ok
    THEN /\ games_file' = games_file
         /\ game_call' = GameCall("add", game, ty, path, force, "ReadGames", None)
    ELSE LET games == games_file.list
             entry == RemoveOrDefault(games, game)
             new_games == MapInsert(games, game, MapInsert(entry, ty, path))
         IN IF save_ok
            THEN /\ games_file' = Readable(new_games)
                 /\ game_call' = GameCall("add", game, ty, path, force, "Ok", None)
            ELSE /\ games_file' \in FailedSaves(games_file)
                 /\ game_call' = GameCall("add", game, ty, path, force, "Save", None)

\* AddGame::add_game
AddGame(game, ty, path, force, read_ok, save_ok) ==
    IF ~games_file.readable \/ ~read_ok
    THEN /\ games_file' = games_file
         /\ game_call' = GameCall("add", game, ty, path, force, "ReadGames", None)
    ELSE LET games == games_file.list
             entry == RemoveOrDefault(games, game)
             new_games == MapInsert(games, game, MapInsert(entry, ty, path))
         IN IF ~force /\ ty \in DOMAIN entry
            THEN /\ games_file' = games_file
                 /\ game_call' = GameCall("add", game, ty, path, force,
                                          "GameOfTypeExists", entry[ty])
            ELSE IF save_ok
            THEN /\ games_file' = Readable(new_games)
                 /\ game_call' = GameCall("add", game, ty, path, force, "Ok", None)
            ELSE /\ games_file' \in FailedSaves(games_file)
                 /\ game_call' = GameCall("add", game, ty, path, force, "Save", None)

\* RemoveGame::remove_game; ty = None removes every entry of the game.
RemoveGame(game, ty, read_ok, save_ok) ==
    IF ~games_file.readable \/ ~read_ok
    THEN /\ games_file' = games_file
         /\ game_call' = GameCall("remove", game, ty, None, FALSE, "ReadGames", None)
    ELSE LET games == games_file.list
             entry == RemoveOrDefault(games, game)
             new_games == IF ty = None THEN MapRemove(games, game)
                          ELSE MapInsert(games, game, MapRemove(entry, ty))
         IN IF save_ok
            THEN /\ games_file' = Readable(new_games)
                 /\ game_call' = GameCall("remove", game, ty, None, FALSE, "Ok", None)
            ELSE /\ games_file' \in FailedSaves(games_file)
                 /\ game_call' = GameCall("remove", game, ty, None, FALSE, "Save", None)

InitGame ==
    /\ games_file = Readable(EmptyMap)
    /\ game_call = NoGameCall
    /\ IdleOp /\ IdleFiles /\ IdleClean /\ IdleUp /\ IdleDiff /\ IdleRun

\* Command::run with Command::Add
RunAddGame ==
    /\ \E game \in GameNames, ty \in GameTypes, path \in SavePaths,
          force \in BOOLEAN, read_ok \in BOOLEAN, save_ok \in BOOLEAN :
            AddGame(game, ty, path, force, read_ok, save_ok)
    /\ UNCHANGED <<opVars, filesVars, cleanVars, upVars, diffVars, runVars>>

\* Command::run with Command::Remove
RunRemoveGame ==
    /\ \E game \in GameNames, ty \in GameTypes \cup {None},
          read_ok \in BOOLEAN, save_ok \in BOOLEAN :
            RemoveGame(game, ty, read_ok, save_ok)
    /\ UNCHANGED <<opVars, filesVars, cleanVars, upVars, diffVars, runVars>>

NextGame == RunAddGame \/ RunRemoveGame

SpecGame == InitGame /\ [][NextGame]_vars

(***************************************************************************)
(* C39                                                                     *)
(***************************************************************************)
\* The (game, type, path) entries of a games list.
Entries(list) ==
    UNION {{<<game, ty, list[game][ty]>> : ty \in DOMAIN list[game]} : game \in DOMAIN list}

\* Before the last call the saved list had a path for the call's game and
\* type.
HadEntry ==
    /\ game_call.pre.readable
    /\ game_call.game \in DOMAIN game_call.pre.list
    /\ game_call.ty \in DOMAIN game_call.pre.list[game_call.game]

\* The last add_game call returned GameOfTypeExists with the path the list
\* had, and the games file is as before.
RefusedUnchanged ==
    /\ game_call.result = "GameOfTypeExists"
    /\ game_call.carried = game_call.pre.list[game_call.game][game_call.ty]
    /\ games_file = game_call.pre

\* The saved list maps the call's (game, type) to the call's path and every
\* other entry is as before.
SavedWithNewPath ==
    /\ games_file.readable
    /\ Entries(games_file.list) =
          {x \in Entries(game_call.pre.list) :
              ~(x[1] = game_call.game /\ x[2] = game_call.ty)}
          \cup {<<game_call.game, game_call.ty, game_call.path>>}

\* C39: for a call of add_game that could read the games file: without
\* force on an existing (game, type) entry it returns GameOfTypeExists with
\* the existing path and the saved list is unchanged; with force, or
\* without an entry, it saves, and when the save succeeds the saved list
\* maps (game, type) to the new path and every other entry is unchanged.
C39_AddGame ==
    (game_call.cmd = "add" /\ game_call.result # "ReadGames") =>
        IF ~game_call.force /\ HadEntry THEN RefusedUnchanged
        ELSE /\ game_call.result \in {"Ok", "Save"}
             /\ game_call.result = "Ok" => SavedWithNewPath

\* add_game with force replaced the path of an entry and kept the entry of
\* another game and of another type of the same game.
C39_Witness ==
    /\ game_call.cmd = "add" /\ game_call.force /\ game_call.result = "Ok"
    /\ HadEntry
    /\ game_call.pre.list[game_call.game][game_call.ty] # game_call.path
    /\ games_file.list[game_call.game][game_call.ty] = game_call.path
    /\ \E x, y \in Entries(games_file.list) :
          /\ x[1] # game_call.game
          /\ y[1] = game_call.game /\ y[2] # game_call.ty
====
